---- MODULE Spec2Model ----
(***************************************************************************)
(* Chunked record extraction of the mi-dataset parsers: the ADCPT-M WVS    *)
(* binary parser (adcpt_m_wvs.py), the ADCPT PD8 line assembler            *)
(* (adcpt_acfgm_dcl_pd8.py) and the PCO2A line parser (pco_a_2a_dcl.py),   *)
(* driven through the pull interface get_records.                          *)
(*                                                                         *)
(* A stream is a sequence of bytes (WVS) or of text symbols (ASCII         *)
(* parsers).  Offsets are zero based as in the Python code; TLA+ sequences *)
(* are one based, so byte p of a buffer b is b[p + 1].                     *)
(***************************************************************************)
EXTENDS Integers, Sequences, FiniteSets, TLC

\* ------------------------------------------------------------------ bounds
\* Bytes delivered by one get_block read of the binary parser (scaled down).
BlockSize == 24
\* Symbols delivered by one get_block read of the ASCII parsers (scaled).
LineBlock == 3
\* Number of get_records calls the caller makes on one parser.
MaxCalls == 3
\* Largest max_count the caller passes to get_records.
MaxCount == 2
\* Number of segments (records, junk runs) an input file is built from.
MaxSegs == 2
\* Largest bit index passed to check_bit.
MaxIndex == 4
\* Largest value of a count field of a WVS record decoded on its own.
MaxElems == 2
\* Number of lines of an FCoeff file.
MaxLines == 3

\* The element of a one-element set; Only({ f(x) : x \in {e} }) is f(e) with e
\* evaluated once.
Only(S) == CHOOSE x \in S : TRUE

\* Python's None where an index or a number is expected.  In Python 2 None
\* orders below every integer, as this value does.
None == 0 - 1

\* ------------------------------------------------------- little-endian ints
U16(raw, p) == raw[p + 1] + 256 * raw[p + 2]
S16(raw, p) == IF U16(raw, p) >= 32768 THEN U16(raw, p) - 65536 ELSE U16(raw, p)
U32(raw, p) == raw[p + 1] + 256 * raw[p + 2] + 65536 * raw[p + 3] + 16777216 * raw[p + 4]
S32(raw, p) ==
    raw[p + 1] + 256 * raw[p + 2] + 65536 * raw[p + 3]
    + 16777216 * (IF raw[p + 4] >= 128 THEN raw[p + 4] - 256 ELSE raw[p + 4])
S8(raw, p) == IF raw[p + 1] >= 128 THEN raw[p + 1] - 256 ELSE raw[p + 1]

LE16(n) == << n % 256, n \div 256 >>
LE32(n) == << n % 256, (n \div 256) % 256, (n \div 65536) % 256, n \div 16777216 >>

\* ------------------------------------------------------- WVS data type ids
Fixed_Leader == 1
Variable_Leader == 2
Velocity_Time_Series == 3
Amplitude_Time_Series == 4
Velocity_Spectrum == 7
Surface_Track_Spectrum == 8
Pressure_Spectrum == 9
Directional_Spectrum == 10
Wave_Parameters == 11
Heading_Pitch_Roll_Time_Series == 14
Unknown == 17

\* struct format sizes (fmt_sizes)
fmt_sizes(fmt) ==
    CASE fmt = "8B" -> 8
      [] fmt = "17x" -> 17
      [] fmt = "x" -> 1
      [] fmt = "128b" -> 128
      [] fmt \in {"B", "b"} -> 1
      [] fmt \in {"H", "h"} -> 2
      [] fmt \in {"I", "i", "f"} -> 4

\* One element of struct format fmt read at offset p.  A float ('f') is kept
\* as its 32-bit pattern.
UnpackOne(raw, fmt, p) ==
    CASE fmt = "B" -> raw[p + 1]
      [] fmt = "b" -> S8(raw, p)
      [] fmt = "H" -> U16(raw, p)
      [] fmt = "h" -> S16(raw, p)
      [] fmt \in {"I", "f"} -> U32(raw, p)
      [] fmt = "i" -> S32(raw, p)

\* struct.unpack_from('<%s%s' % (count, fmt), raw, p): count elements, or
\* struct.error when the buffer holds fewer than count * size bytes from p.
CanUnpack(raw, count, fmt, p) == p + count * fmt_sizes(fmt) <= Len(raw)
UnpackN(raw, count, fmt, p) ==
    [k \in 1..count |-> UnpackOne(raw, fmt, p + (k - 1) * fmt_sizes(fmt))]

\* ------------------------------------------------------- text conversions
\* A Python string is the sequence of its character codes.
Digit(d) == 48 + d
Digits(ds) == [k \in 1..Len(ds) |-> Digit(ds[k])]
Dot == 46
IsDigit(c) == c >= 48 /\ c <= 57
AllDigits(str) == \A k \in 1..Len(str) : IsDigit(str[k])

\* The number a string of digits denotes.
RECURSIVE DigitsValue(_)
DigitsValue(str) ==
    IF str = << >> THEN 0
    ELSE 10 * DigitsValue(SubSeq(str, 1, Len(str) - 1)) + (str[Len(str)] - 48)

\* The result of a conversion: ok is FALSE for a ValueError.
Converted(ok, kind, v) == [ok |-> ok, kind |-> kind, v |-> v]

\* str(x) of a string
py_str(str) == Converted(TRUE, "str", str)

\* int(x) of a string of the characters the patterns let through (no sign,
\* no blanks): a ValueError unless it is a non-empty string of digits.
py_int(str) ==
    IF str # << >> /\ AllDigits(str)
    THEN Converted(TRUE, "int", << DigitsValue(str) >>)
    ELSE Converted(FALSE, "null", << >>)

\* float(x) of a string matched by \d+.\d+ or \d+: digits, or digits with
\* one decimal point; anything else between the digits is a ValueError.  The
\* value is kept as << integer part, fraction digits, their number >>.
py_float(str) ==
    LET dots == { k \in 1..Len(str) : str[k] = Dot } IN
    IF str # << >> /\ AllDigits(str)
    THEN Converted(TRUE, "float", << DigitsValue(str), 0, 0 >>)
    ELSE IF /\ Cardinality(dots) = 1
            /\ \A k \in 1..Len(str) : k \in dots \/ IsDigit(str[k])
            /\ Len(str) > 1
    THEN LET d == CHOOSE k \in dots : TRUE IN
         Converted(TRUE, "float",
                   << DigitsValue(SubSeq(str, 1, d - 1)),
                      DigitsValue(SubSeq(str, d + 1, Len(str))),
                      Len(str) - d >>)
    ELSE Converted(FALSE, "null", << >>)

Convert(function, str) ==
    CASE function = "str" -> py_str(str)
      [] function = "int" -> py_int(str)
      [] function = "float" -> py_float(str)

\* datetime.date(year, month, 1).toordinal()
IsLeap(y) == y % 4 = 0 /\ (y % 100 # 0 \/ y % 400 = 0)
DaysBeforeYear(y) ==
    (y - 1) * 365 + (y - 1) \div 4 - (y - 1) \div 100 + (y - 1) \div 400
DaysBeforeMonth(y, m) ==
    << 0, 31, 59, 90, 120, 151, 181, 212, 243, 273, 304, 334 >>[m]
    + (IF m > 2 /\ IsLeap(y) THEN 1 ELSE 0)
EpochOrdinal == DaysBeforeYear(1970) + 1

\* No internal timestamp set.
NoTimestamp == << >>

\* calendar.timegm((year, month, day, hour, minute, second, ...)): whole
\* seconds since the epoch, a ValueError (ok FALSE) when datetime.date rejects
\* the year or the month.  The day is not validated.
timegm(year, month, day, hour, minute, second) ==
    IF year < 1 \/ year > 9999 \/ month < 1 \/ month > 12
    THEN [ok |-> FALSE, secs |-> 0]
    ELSE [ok |-> TRUE,
          secs |-> (((DaysBeforeYear(year) + DaysBeforeMonth(year, month) + 1
                      - EpochOrdinal + day - 1) * 24 + hour) * 60 + minute) * 60
                   + second]

\* ------------------------------------------------------------- WVS sieve
\* HEADER_MATCHER.search: the first offset at which the sync word 7F 7A is
\* followed by the ten further header bytes (any byte values).
RECURSIVE HeaderSearchFrom(_, _)
HeaderSearchFrom(buf, s) ==
    IF s + 12 > Len(buf) THEN None
    ELSE IF buf[s + 1] = 127 /\ buf[s + 2] = 122 THEN s
    ELSE HeaderSearchFrom(buf, s + 1)

HEADER_MATCHER_search(buf) == HeaderSearchFrom(buf, 0)

\* The test that a whole record is in the buffer, and two wrong versions of
\* it: one that always passes, one that passes up to ten bytes early.
WholeRecordMut(buflen, record_end) == TRUE
WholeRecordEarly(buflen, record_end) == buflen + 10 >= record_end
WholeRecord(buflen, record_end) == buflen >= record_end

sieve_function(input_buffer) ==
    LET first_match == HEADER_MATCHER_search(input_buffer) IN
    IF first_match = None THEN << >>
    ELSE LET record_start == first_match
             record_end == record_start + U32(input_buffer, first_match + 4)
         IN IF WholeRecord(Len(input_buffer), record_end)
            THEN << << record_start, record_end >> >>
            ELSE << >>

\* ------------------------------------------------------------ WVS decoder
\* A particle value: kind is "scalar", "array" or "null"; v holds the numbers.
Val(id, kind, v) == [id |-> id, kind |-> kind, v |-> v]

VELOCITY_SPECTRUM_ENCODING_RULES ==
    << [key |-> "vspec_num_freq", fmt |-> "H", num |-> ""],
       [key |-> "vspec_dat", fmt |-> "i", num |-> "vspec_num_freq"] >>

SURFACE_TRACK_SPECTRUM_ENCODING_RULES ==
    << [key |-> "sspec_num_freq", fmt |-> "H", num |-> ""],
       [key |-> "sspec_dat", fmt |-> "i", num |-> "sspec_num_freq"] >>

PRESSURE_SPECTRUM_ENCODING_RULES ==
    << [key |-> "pspec_num_freq", fmt |-> "H", num |-> ""],
       [key |-> "pspec_dat", fmt |-> "i", num |-> "pspec_num_freq"] >>

\* 'spare' in key
IsSpare(key) == key = "spare"

\* The result of decoding (part of) a record: exc is "none" or the name of the
\* Python exception that left the decoder; ts is the internal timestamp set so
\* far (NoTimestamp when unset).
Decoded(exc, values, ts) == [exc |-> exc, values |-> values, ts |-> ts]

EmptyDict == [x \in {} |-> 0]

\* _parse_other_stuff: a count field followed by an array of that many items.
RECURSIVE ParseOtherFrom(_, _, _, _, _, _)
ParseOtherFrom(raw, rules, k, position, temp_dict, acc) ==
    IF k > Len(rules) THEN acc
    ELSE LET key == rules[k].key
             formatter == rules[k].fmt
             num_data == rules[k].num
         IN
         IF IsSpare(key)
         THEN ParseOtherFrom(raw, rules, k + 1, position + fmt_sizes(formatter),
                             temp_dict, acc)
         ELSE IF num_data # "" /\ num_data \notin DOMAIN temp_dict
         THEN Decoded("KeyError", acc.values, acc.ts)
         ELSE IF num_data # "" /\ temp_dict[num_data] # 0
         THEN LET count == temp_dict[num_data] IN
              IF ~CanUnpack(raw, count, formatter, position)
              THEN Decoded("struct.error", acc.values, acc.ts)
              ELSE ParseOtherFrom(raw, rules, k + 1,
                       position + fmt_sizes(formatter) * count, temp_dict,
                       Decoded("none",
                               Append(acc.values,
                                      Val(key, "array",
                                          UnpackN(raw, count, formatter, position))),
                               acc.ts))
         ELSE IF ~CanUnpack(raw, 1, formatter, position)
              THEN Decoded("struct.error", acc.values, acc.ts)
              ELSE LET value == UnpackOne(raw, formatter, position) IN
                   ParseOtherFrom(raw, rules, k + 1,
                       position + fmt_sizes(formatter),
                       (key :> value) @@ temp_dict,
                       Decoded("none",
                               Append(acc.values, Val(key, "scalar", << value >>)),
                               acc.ts))

_parse_other_stuff(raw, offset, rules, acc) ==
    ParseOtherFrom(raw, rules, 1, offset, EmptyDict, acc)

_do_nothing(raw, offset, rules, acc) == acc

VARIABLE_LEADER_ENCODING_RULES ==
    <<
       [key |-> "start_time", fmt |-> "8B"],
       [key |-> "stop_time", fmt |-> "8B"],
       [key |-> "freq_lo", fmt |-> "H"],
       [key |-> "average_depth", fmt |-> "I"],
       [key |-> "altitude", fmt |-> "I"],
       [key |-> "bin_map", fmt |-> "128b"],
       [key |-> "disc_flag", fmt |-> "B"],
       [key |-> "pct_gd_press", fmt |-> "B"],
       [key |-> "avg_ss", fmt |-> "H"],
       [key |-> "avg_temp", fmt |-> "H"],
       [key |-> "pct_gd_surf", fmt |-> "B"],
       [key |-> "pct_gd_vel", fmt |-> "B"],
       [key |-> "heading_offset", fmt |-> "h"],
       [key |-> "hs_std", fmt |-> "I"],
       [key |-> "vs_std", fmt |-> "I"],
       [key |-> "ps_std", fmt |-> "I"],
       [key |-> "ds_freq_hi", fmt |-> "I"],
       [key |-> "vs_freq_hi", fmt |-> "I"],
       [key |-> "ps_freq_hi", fmt |-> "I"],
       [key |-> "ss_freq_hi", fmt |-> "I"],
       [key |-> "x_vel", fmt |-> "h"],
       [key |-> "y_vel", fmt |-> "h"],
       [key |-> "avg_pitch", fmt |-> "h"],
       [key |-> "avg_roll", fmt |-> "h"],
       [key |-> "avg_heading", fmt |-> "h"],
       [key |-> "samples_collected", fmt |-> "h"],
       [key |-> "vspec_pct_measured", fmt |-> "h"] >>

\* The repeat count and the element code of a struct format of fmt_sizes.
FmtCount(fmt) == CASE fmt = "8B" -> 8 [] fmt = "128b" -> 128 [] OTHER -> 1
FmtElem(fmt) == CASE fmt = "8B" -> "B" [] fmt = "128b" -> "b" [] OTHER -> fmt

\* 'start_time' in key
IsStartTime(key) == key = "start_time"

\* _parse_variable_leader: every field is appended; the start_time field
\* also sets the internal timestamp (calendar.timegm raises ValueError for a
\* month or year out of range).
RECURSIVE VariableLeaderFrom(_, _, _, _, _)
VariableLeaderFrom(raw, rules, k, position, acc) ==
    IF k > Len(rules) THEN acc
    ELSE LET key == rules[k].key
             formatter == rules[k].fmt
         IN
         IF ~CanUnpack(raw, FmtCount(formatter), FmtElem(formatter), position)
         THEN Decoded("struct.error", acc.values, acc.ts)
         ELSE LET value == UnpackN(raw, FmtCount(formatter), FmtElem(formatter),
                                   position)
                  t == IF IsStartTime(key)
                       THEN timegm(value[1] * 100 + value[2], value[3], value[4],
                                   value[5], value[6], value[7])
                       ELSE [ok |-> TRUE, secs |-> 0]
              IN IF ~t.ok
                 THEN Decoded("ValueError", acc.values, acc.ts)
                 ELSE VariableLeaderFrom(raw, rules, k + 1,
                          position + fmt_sizes(formatter),
                          Decoded("none",
                                  Append(acc.values,
                                         Val(key,
                                             IF Len(value) = 1 THEN "scalar"
                                             ELSE "array",
                                             value)),
                                  IF IsStartTime(key) THEN << t.secs >>
                                  ELSE acc.ts))

_parse_variable_leader(raw, offset, rules, acc) ==
    VariableLeaderFrom(raw, rules, 1, offset, acc)

\* The count fields have num << >> (None); the array names both counts.
DIRECTIONAL_SPECTRUM_ENCODING_RULES ==
    << [key |-> "dspec_num_freq", fmt |-> "H", num |-> << >>],
       [key |-> "dspec_num_dir", fmt |-> "H", num |-> << >>],
       [key |-> "dspec_good", fmt |-> "H", num |-> << >>],
       [key |-> "dspec_dat", fmt |-> "I",
        num |-> << "dspec_num_freq", "dspec_num_dir" >>] >>

\* numpy.array(value).reshape((rows, cols)).tolist()
Reshape(value, rows, cols) ==
    [r \in 1..rows |-> [c \in 1..cols |-> value[(r - 1) * cols + c]]]

\* numpy.array(value).reshape((rows, cols)).transpose().tolist()
ReshapeTranspose(value, rows, cols) ==
    [c \in 1..cols |-> [r \in 1..rows |-> value[(r - 1) * cols + c]]]

\* _parse_directional_spectrum: the array branch is taken when the first
\* count is not zero; otherwise the field is read as one number.
RECURSIVE DirectionalFrom(_, _, _, _, _, _)
DirectionalFrom(raw, rules, k, position, temp_dict, acc) ==
    IF k > Len(rules) THEN acc
    ELSE LET key == rules[k].key
             formatter == rules[k].fmt
             num_data == rules[k].num
         IN
         IF IsSpare(key)
         THEN DirectionalFrom(raw, rules, k + 1, position + fmt_sizes(formatter),
                              temp_dict, acc)
         ELSE IF num_data # << >> /\ num_data[1] \notin DOMAIN temp_dict
         THEN Decoded("KeyError", acc.values, acc.ts)
         ELSE IF num_data # << >> /\ temp_dict[num_data[1]] # 0
         THEN IF num_data[2] \notin DOMAIN temp_dict
              THEN Decoded("KeyError", acc.values, acc.ts)
              ELSE LET count == temp_dict[num_data[1]] * temp_dict[num_data[2]] IN
                   IF ~CanUnpack(raw, count, formatter, position)
                   THEN Decoded("struct.error", acc.values, acc.ts)
                   ELSE DirectionalFrom(raw, rules, k + 1,
                            position + fmt_sizes(formatter) * count, temp_dict,
                            Decoded("none",
                                    Append(acc.values,
                                           Val(key, "array",
                                               Reshape(UnpackN(raw, count, formatter,
                                                               position),
                                                       temp_dict[num_data[1]],
                                                       temp_dict[num_data[2]]))),
                                    acc.ts))
         ELSE IF ~CanUnpack(raw, 1, formatter, position)
              THEN Decoded("struct.error", acc.values, acc.ts)
              ELSE LET value == UnpackOne(raw, formatter, position) IN
                   DirectionalFrom(raw, rules, k + 1,
                       position + fmt_sizes(formatter),
                       (key :> value) @@ temp_dict,
                       Decoded("none",
                               Append(acc.values, Val(key, "scalar", << value >>)),
                               acc.ts))

_parse_directional_spectrum(raw, offset, rules, acc) ==
    DirectionalFrom(raw, rules, 1, offset, EmptyDict, acc)

\* The last rule has a list of three keys (keys); the others have one (key).
HPR_TIME_SERIES_ENCODING_RULES ==
    << [key |-> "hpr_num_samples", keys |-> << >>, fmt |-> "H", num |-> ""],
       [key |-> "beam_angle", keys |-> << >>, fmt |-> "H", num |-> ""],
       [key |-> "spare", keys |-> << >>, fmt |-> "H", num |-> ""],
       [key |-> "",
        keys |-> << "heading_time_series", "pitch_time_series",
                    "roll_time_series" >>,
        fmt |-> "h", num |-> "hpr_num_samples"] >>

\* _parse_hpr_time_series: three series of n values each, stored sample by
\* sample.  With a count of zero the else branch runs with the list of
\* keys: temp_dict.update({key: value}) raises TypeError (a list is not
\* hashable).
RECURSIVE HprFrom(_, _, _, _, _, _)
HprFrom(raw, rules, k, position, temp_dict, acc) ==
    IF k > Len(rules) THEN acc
    ELSE LET key == rules[k].key
             keys == rules[k].keys
             formatter == rules[k].fmt
             num_data == rules[k].num
         IN
         IF keys = << >> /\ IsSpare(key)
         THEN HprFrom(raw, rules, k + 1, position + fmt_sizes(formatter),
                      temp_dict, acc)
         ELSE IF num_data # "" /\ num_data \notin DOMAIN temp_dict
         THEN Decoded("KeyError", acc.values, acc.ts)
         ELSE IF num_data # "" /\ temp_dict[num_data] # 0
         THEN LET n == temp_dict[num_data] IN
              IF ~CanUnpack(raw, 3 * n, formatter, position)
              THEN Decoded("struct.error", acc.values, acc.ts)
              ELSE LET new_np == ReshapeTranspose(
                                     UnpackN(raw, 3 * n, formatter, position), n, 3)
                   IN HprFrom(raw, rules, k + 1,
                          position + fmt_sizes(formatter) * n * 3, temp_dict,
                          Decoded("none",
                                  acc.values
                                  \o << Val(keys[1], "array", new_np[1]),
                                        Val(keys[2], "array", new_np[2]),
                                        Val(keys[3], "array", new_np[3]) >>,
                                  acc.ts))
         ELSE IF ~CanUnpack(raw, 1, formatter, position)
              THEN Decoded("struct.error", acc.values, acc.ts)
              ELSE IF keys # << >>
              THEN Decoded("TypeError", acc.values, acc.ts)
              ELSE LET value == UnpackOne(raw, formatter, position) IN
                   HprFrom(raw, rules, k + 1,
                       position + fmt_sizes(formatter),
                       (key :> value) @@ temp_dict,
                       Decoded("none",
                               Append(acc.values, Val(key, "scalar", << value >>)),
                               acc.ts))

_parse_hpr_time_series(raw, offset, rules, acc) ==
    HprFrom(raw, rules, 1, offset, EmptyDict, acc)

\* The keys of func_dict.
FuncIds ==
    { Fixed_Leader, Variable_Leader, Velocity_Time_Series, Velocity_Spectrum,
      Surface_Track_Spectrum, Pressure_Spectrum, Directional_Spectrum,
      Wave_Parameters, Heading_Pitch_Roll_Time_Series, Unknown }

\* func_dict[data_type_id][1](offset + 2, func_dict[data_type_id][0], ...)
\* The fixed leader (_parse_stuff) has no arm: no input below contains one.
func_dict_call(data_type_id, raw, position, acc) ==
    CASE data_type_id = Velocity_Spectrum ->
             _parse_other_stuff(raw, position, VELOCITY_SPECTRUM_ENCODING_RULES, acc)
      [] data_type_id = Surface_Track_Spectrum ->
             _parse_other_stuff(raw, position, SURFACE_TRACK_SPECTRUM_ENCODING_RULES, acc)
      [] data_type_id = Pressure_Spectrum ->
             _parse_other_stuff(raw, position, PRESSURE_SPECTRUM_ENCODING_RULES, acc)
      [] data_type_id = Variable_Leader ->
             _parse_variable_leader(raw, position, VARIABLE_LEADER_ENCODING_RULES, acc)
      [] data_type_id = Directional_Spectrum ->
             _parse_directional_spectrum(raw, position,
                                         DIRECTIONAL_SPECTRUM_ENCODING_RULES, acc)
      [] data_type_id = Heading_Pitch_Roll_Time_Series ->
             _parse_hpr_time_series(raw, position, HPR_TIME_SERIES_ENCODING_RULES, acc)
      [] data_type_id \in {Velocity_Time_Series, Wave_Parameters, Unknown} ->
             _do_nothing(raw, position, << >>, acc)

\* The loop over the record's offset table.
RECURSIVE ParseOffsets(_, _, _, _)
ParseOffsets(raw, offsets, k, acc) ==
    IF k > Len(offsets) \/ acc.exc # "none" THEN acc
    ELSE LET offset == offsets[k] IN
         IF ~CanUnpack(raw, 1, "h", offset)
         THEN Decoded("struct.error", acc.values, acc.ts)
         ELSE LET data_type_id == S16(raw, offset) IN
              IF data_type_id \notin FuncIds
              THEN Decoded("KeyError", acc.values, acc.ts)
              ELSE ParseOffsets(raw, offsets, k + 1,
                                func_dict_call(data_type_id, raw, offset + 2, acc))

\* The class attributes _file_time and _sequence_number of
\* AdcptMWVSInstrumentDataParticle, None until a file name has matched.
ClassDefault == [file_time |-> None, sequence_number |-> None]

\* The two leading values, present when the class attribute is truthy.  The
\* attributes hold digit strings: str keeps file_time, int converts
\* sequence_number (both modelled by the number the digits denote).
FileValues(cls) ==
    (IF cls.file_time # None
     THEN << Val("file_time", "scalar", << cls.file_time >>) >> ELSE << >>)
    \o (IF cls.sequence_number # None
        THEN << Val("sequence_number", "scalar", << cls.sequence_number >>) >>
        ELSE << >>)

\* AdcptMWVSInstrumentDataParticle._build_parsed_values on one framed record.
_build_parsed_values(raw_data, cls) ==
    IF ~CanUnpack(raw_data, 12, "B", 0)
    THEN Decoded("struct.error", << >>, NoTimestamp)
    ELSE LET num_data_types == raw_data[12] IN
         IF ~CanUnpack(raw_data, num_data_types, "I", 12)
         THEN Decoded("struct.error", << >>, NoTimestamp)
         ELSE ParseOffsets(raw_data, UnpackN(raw_data, num_data_types, "I", 12), 1,
                           Decoded("none", FileValues(cls), NoTimestamp))

\* --------------------------------------------------------------- chunker
\* StringChunker: the gaps before and between the data spans the sieve
\* returned.  Bytes after the last span are not classified yet.
RECURSIVE Gaps(_, _, _)
Gaps(spans, k, prev_end) ==
    IF k > Len(spans) THEN << >>
    ELSE (IF spans[k][1] > prev_end THEN << << prev_end, spans[k][1] >> >> ELSE << >>)
         \o Gaps(spans, k + 1, spans[k][2])

\* Python's buf[s:e], which stops at the end of buf.
Slice(buf, s, e) == SubSeq(buf, s + 1, IF e < Len(buf) THEN e ELSE Len(buf))

\* A chunk with its indices; none is TRUE for Python's (None, None, None, None).
NoChunk == [none |-> TRUE, data |-> << >>, start |-> None, end |-> None]
Chunk(buf, span) ==
    [none |-> FALSE, data |-> Slice(buf, span[1], span[2]),
     start |-> span[1], end |-> span[2]]

\* get_next_non_data_with_index(clean=False): the first gap, left in place.
get_next_non_data_with_index(buf, spans) ==
    IF Gaps(spans, 1, 0) = << >> THEN NoChunk ELSE Chunk(buf, Gaps(spans, 1, 0)[1])

\* get_next_data_with_index(clean=True): the first data span; the buffer is
\* then cut up to the end of the span (CleanBuffer).
get_next_data_with_index(buf, spans) ==
    IF spans = << >> THEN NoChunk ELSE Chunk(buf, spans[1])

CleanBuffer(buf, chunk) ==
    IF chunk.none THEN buf ELSE Slice(buf, chunk.end, Len(buf))

\* ---------------------------------------------------------------- events
\* What the parser did, in order (a history of the calls it made):
\*   "data"     a frame handed to the decoder,
\*   "nondata"  an UnexpectedDataException for a non-data span,
\*   "unknown"  an UnexpectedDataException for an unrecognised line,
\*   "encoding" a SampleEncodingException for a particle,
\* each with the span [s, e) of the stream it is about.
Event(k, s, e) == [k |-> k, s |-> s, e |-> e]

\* ------------------------------------------------- WVS parser: parse_chunks
\* handle_non_data's test, and a wrong version that never reports.
ReportNonDataMut(non, start) == FALSE
ReportNonData(non, start) == ~non.none /\ non.end <= start

\* handle_non_data reporting the span twice.
HandleNonDataTwice(events, base, non, start) ==
    IF ReportNonData(non, start)
    THEN events \o << Event("nondata", base + non.start, base + non.end),
                      Event("nondata", base + non.start, base + non.end) >>
    ELSE events

\* handle_non_data(non_data, non_end, start): base is the stream offset of
\* the chunker buffer's first byte.
handle_non_data(events, base, non, start) ==
    IF ReportNonData(non, start)
    THEN Append(events, Event("nondata", base + non.start, base + non.end))
    ELSE events

\* A particle: its stream, internal timestamp and values; s and e record the
\* span of the stream it was built from.
Particle(stream, d, s, e) ==
    [stream |-> stream, ts |-> d.ts, values |-> d.values, s |-> s, e |-> e]

\* The state parse_chunks works on: the chunker's buffer (base is the stream
\* offset of its first byte), the parser fields it reads and writes, and its
\* locals.
Local(buf, base, events, cls, particle_class, position) ==
    [buf |-> buf, base |-> base, events |-> events, cls |-> cls,
     particle_class |-> particle_class, position |-> position,
     chunk |-> NoChunk, chunk_at |-> base, result |-> << >>, exc |-> "none",
     sieved |-> << >>, acc_log |-> << >>,
     sensor_data_list |-> << >>, sensor_temp_list |-> << >>,
     sensor_head_list |-> << >>, sensor_time_list |-> << >>,
     end_time_list |-> << >>]

\* The three statements that fetch the next chunk: the next non-data
\* (clean=False), the next data (clean=True), handle_non_data.
WvsFetchWith(L, spans) ==
    LET non == get_next_non_data_with_index(L.buf, spans)
        dat == get_next_data_with_index(L.buf, spans)
    IN [L EXCEPT !.chunk = dat,
                 !.chunk_at = L.base,
                 !.buf = CleanBuffer(L.buf, dat),
                 !.base = IF dat.none THEN L.base ELSE L.base + dat.end,
                 !.events = handle_non_data(L.events, L.base, non, dat.start),
                 !.sieved = Append(@, [buf |-> L.buf, spans |-> spans])]

WvsFetch(L0) ==
    Only({ Only({ WvsFetchWith(L, spans) : spans \in {sieve_function(L.buf)} })
           : L \in {L0} })

\* while chunk: ... of AdcptMWVSParser.parse_chunks.  After _extract_sample
\* the loop calls particle.generate_dict() itself, outside any handler, so an
\* exception of the decoder leaves parse_chunks whatever _extract_sample did
\* with it.
RECURSIVE WvsWhile(_)
WvsBody(L) ==
    IF L.chunk.data = << >> THEN L
    ELSE LET s == L.chunk_at + L.chunk.start
             e == L.chunk_at + L.chunk.end
             ev == Append(L.events, Event("data", s, e))
         IN Only({ IF d.exc # "none"
                   THEN [L EXCEPT !.exc = d.exc, !.events = ev]
                   ELSE WvsWhile(WvsFetch(
                            [L EXCEPT !.events = ev,
                                      !.result = Append(@,
                                          Particle("adcpt_m_wvs_recovered", d, s, e))]))
                   : d \in {_build_parsed_values(L.chunk.data, L.cls)} })

WvsWhile(L0) == Only({ WvsBody(L) : L \in {L0} })

\* A wrong version of SetFileTime that counts the files seen so far in the
\* class attribute.
SetFileTimeCounting(cls, name) ==
    IF name.match
    THEN [file_time |-> name.time, sequence_number |-> cls.sequence_number + 1]
    ELSE cls

\* FILE_NAME_MATCHER.match(input_file_name) and the class attributes it sets.
\* A file name is [match, seq, time]: whether the pattern matches and the two
\* digit groups.
SetFileTime(cls, name) ==
    IF name.match
    THEN [file_time |-> name.time, sequence_number |-> name.seq]
    ELSE cls

WvsParseChunks(L, name) ==
    WvsWhile(WvsFetch([L EXCEPT !.cls = SetFileTime(L.cls, name)]))

\* ------------------------------------------------------ ASCII line sieve
\* An ASCII stream is a sequence of symbols: "nl" is a newline, every other
\* symbol stands for the text of one line (or of a fragment of one).
\* PCO_RECORD_MATCHER (any characters, then a newline) applied by
\* regex_sieve_function: one span for each run of symbols ending in a newline.
RECURSIVE LineSpansFrom(_, _, _)
LineSpansFrom(buf, start, k) ==
    IF k >= Len(buf) THEN << >>
    ELSE IF buf[k + 1] = "nl"
    THEN << << start, k + 1 >> >> \o LineSpansFrom(buf, k + 1, k + 1)
    ELSE LineSpansFrom(buf, start, k + 1)

PCO_RECORD_MATCHER_spans(buf) == LineSpansFrom(buf, 0, 0)

\* ------------------------------------------------------------ pco parser
\* The lines that SENSOR_DATA_PATTERN matches, by symbol: a water sample, an
\* air sample, a sample whose last character is 'Q', and a water sample whose
\* gas stream pressure is the empty string (UINT is \d*).
PcoSensorLines == {"W", "A", "Q", "Wbad"}

\* SENSOR_DATA_MATCHER.match(chunk).groups(): match anchors the pattern at the
\* start of the chunk and the pattern ends at the newline, so the chunk is
\* one sensor line and its newline.  None is << >>.
SENSOR_DATA_MATCHER_groups(chunk) ==
    IF Len(chunk) = 2 /\ chunk[1] \in PcoSensorLines
    THEN LET year == Digits(<< 2, 0, 1, 4 >>)
             month == Digits(<< 0, 8 >>)
             day == Digits(<< 1, 0 >>)
             hour == Digits(<< 0, 0 >>)
             minute == Digits(<< 2, 0 >>)
             second == Digits(<< 2, 4 >>) \o << Dot >> \o Digits(<< 2, 7, 4 >>)
             date == Digits(<< 3, 7, 6, 5 >>) \o << 47 >> \o Digits(<< 0, 7 >>)
                     \o << 47 >> \o Digits(<< 2, 7 >>)
             time == Digits(<< 0, 1 >>) \o << 58 >> \o Digits(<< 0, 0 >>)
                     \o << 58 >> \o Digits(<< 1, 1 >>)
         IN << year \o << 47 >> \o month \o << 47 >> \o day \o << 32 >> \o hour
                 \o << 58 >> \o minute \o << 58 >> \o second,
               year, month, day, hour, minute, second,
               date \o << 32 >> \o time, date, time,
               Digits(<< 4, 3 >>),
               Digits(<< 4, 0 >>),
               Digits(<< 3, 9, 7 >>) \o << Dot >> \o Digits(<< 0, 4 >>),
               Digits(<< 4, 0 >>) \o << Dot >> \o Digits(<< 1 >>),
               Digits(<< 2, 1 >>) \o << Dot >> \o Digits(<< 2, 2, 1 >>),
               Digits(<< 2, 8 >>) \o << Dot >> \o Digits(<< 4, 8, 0 >>),
               IF chunk[1] = "Wbad" THEN << >> ELSE Digits(<< 1, 0, 2, 6 >>),
               Digits(<< 3, 9 >>) \o << Dot >> \o Digits(<< 9 >>),
               Digits(<< 4, 0 >>) \o << Dot >> \o Digits(<< 4 >>),
               IF chunk[1] = "A" THEN << 65 >>
               ELSE IF chunk[1] = "Q" THEN << 81 >> ELSE << 87 >> >>
    ELSE << >>

\* A wrong metadata pattern that matches every line.
MetadataMatchAny(chunk) == TRUE

\* METADATA_MATCHER.match(chunk): a timestamp and bracketed text, then any
\* characters up to the newline.
METADATA_MATCHER_match(chunk) == chunk[1] = "meta"

SENSOR_GROUP_YEAR == 1
SENSOR_GROUP_MONTH == 2
SENSOR_GROUP_DAY == 3
SENSOR_GROUP_HOUR == 4
SENSOR_GROUP_MINUTE == 5
SENSOR_GROUP_SECOND == 6

\* (name, index into groups(), conversion); water is the water map's name for
\* the CO2 field.
INSTRUMENT_PARTICLE_MAP(water) ==
    << << "dcl_controller_timestamp", 0, "str" >>,
       << "date_time_string", 7, "str" >>,
       << "zero_a2d", 10, "int" >>,
       << "current_a2d", 11, "int" >>,
       << IF water THEN "measured_water_co2" ELSE "measured_air_co2", 12, "float" >>,
       << "avg_irga_temperature", 13, "float" >>,
       << "humidity", 14, "float" >>,
       << "humidity_temperature", 15, "float" >>,
       << "gas_stream_pressure", 16, "int" >>,
       << "irga_detector_temperature", 17, "float" >>,
       << "irga_source_temperature", 18, "float" >> >>

\* The four particle classes of the pco parser.
PcoAir == "Pco2aDclAirInstrumentDataParticle"
PcoAirRecovered == "Pco2aDclAirRecoveredInstrumentDataParticle"
PcoWater == "Pco2aDclWaterInstrumentDataParticle"
PcoWaterRecovered == "Pco2aDclWaterRecoveredInstrumentDataParticle"

IsWaterClass(c) == c \in {PcoWater, PcoWaterRecovered}

\* _data_particle_type of each class
data_particle_type(c) ==
    CASE c = PcoAir -> "pco2a_a_dcl_instrument_air"
      [] c = PcoAirRecovered -> "pco2a_a_dcl_instrument_air_recovered"
      [] c = PcoWater -> "pco2a_a_dcl_instrument_water"
      [] c = PcoWaterRecovered -> "pco2a_a_dcl_instrument_water_recovered"

\* DataParticle._encode_value(name, value, function): the converted value, or
\* a null value when the conversion fails.
_encode_value(name, value, function) ==
    Val(name, Convert(function, value).kind, Convert(function, value).v)

\* Pco2aDclInstrumentDataParticle.__init__: the internal timestamp from the
\* DCL controller timestamp (ok FALSE: a ValueError).
PcoInit(raw_data) ==
    LET y == py_int(raw_data[SENSOR_GROUP_YEAR + 1])
        mo == py_int(raw_data[SENSOR_GROUP_MONTH + 1])
        d == py_int(raw_data[SENSOR_GROUP_DAY + 1])
        h == py_int(raw_data[SENSOR_GROUP_HOUR + 1])
        mi == py_int(raw_data[SENSOR_GROUP_MINUTE + 1])
        sec == py_float(raw_data[SENSOR_GROUP_SECOND + 1])
    IN IF ~(y.ok /\ mo.ok /\ d.ok /\ h.ok /\ mi.ok /\ sec.ok)
       THEN [ok |-> FALSE, ts |-> NoTimestamp]
       ELSE LET t == timegm(y.v[1], mo.v[1], d.v[1], h.v[1], mi.v[1], sec.v[1]) IN
            [ok |-> t.ok,
             ts |-> IF t.ok THEN << t.secs, sec.v[2], sec.v[3] >> ELSE NoTimestamp]

\* Pco2aDclInstrumentDataParticle._build_parsed_values
PcoBuildParsedValues(raw_data, water) ==
    [k \in 1..Len(INSTRUMENT_PARTICLE_MAP(water)) |->
        _encode_value(INSTRUMENT_PARTICLE_MAP(water)[k][1],
                      raw_data[INSTRUMENT_PARTICLE_MAP(water)[k][2] + 1],
                      INSTRUMENT_PARTICLE_MAP(water)[k][3])]

\* Pco2aDclParser.handle_non_data: the report, and _increment_position.
PcoHandleNonData(L, non, start) ==
    [L EXCEPT !.events = handle_non_data(L.events, L.base, non, start),
              !.position = IF ReportNonData(non, start) THEN @ + Len(non.data) ELSE @]

\* The three statements that fetch the next chunk.
PcoFetchWith(L, spans) ==
    LET non == get_next_non_data_with_index(L.buf, spans)
        dat == get_next_data_with_index(L.buf, spans)
    IN [PcoHandleNonData(L, non, dat.start) EXCEPT
                 !.chunk = dat,
                 !.chunk_at = L.base,
                 !.buf = CleanBuffer(L.buf, dat),
                 !.base = IF dat.none THEN L.base ELSE L.base + dat.end,
                 !.sieved = Append(@, [buf |-> L.buf, spans |-> spans])]

PcoFetch(L0) ==
    Only({ Only({ PcoFetchWith(L, spans)
                  : spans \in {PCO_RECORD_MATCHER_spans(L.buf)} })
           : L \in {L0} })

\* A wrong version of WaterClass that never switches the class.
WaterClassStuck(c) == c

\* The particle class after a water ('W') and after an air ('A') sample.
WaterClass(c) ==
    IF c = PcoAir THEN PcoWater
    ELSE IF c = PcoAirRecovered THEN PcoWaterRecovered ELSE c
AirClass(c) ==
    IF c = PcoWater THEN PcoAir
    ELSE IF c = PcoWaterRecovered THEN PcoAirRecovered ELSE c

\* The number of null values of a value list.
RECURSIVE NullCount(_)
NullCount(values) ==
    IF values = << >> THEN 0
    ELSE (IF Head(values).kind = "null" THEN 1 ELSE 0) + NullCount(Tail(values))

RECURSIVE Repeat(_, _)
Repeat(x, n) == IF n = 0 THEN << >> ELSE << x >> \o Repeat(x, n - 1)

\* _extract_sample(particle_class, None, groups, None) of the pco parser:
\* builds the particle; every value that could not be encoded is reported to
\* the exception callback and the particle is returned with that value null.
\* A ValueError of the constructor is not a sample exception and leaves
\* _extract_sample.
PcoExtractSample(L, groups, s, e) ==
    LET init == PcoInit(groups)
        values == PcoBuildParsedValues(groups, IsWaterClass(L.particle_class))
    IN IF ~init.ok THEN [L EXCEPT !.exc = "ValueError"]
       ELSE [L EXCEPT
               !.events = @ \o Repeat(Event("encoding", s, e), NullCount(values)),
               !.result = Append(@, Particle(data_particle_type(L.particle_class),
                                             Decoded("none", values, init.ts),
                                             s, e))]

\* One turn of the while loop of Pco2aDclParser.parse_chunks, up to the fetch
\* of the next chunk.  The sample type is the last group.
PcoBody(L) ==
    LET s == L.chunk_at + L.chunk.start
        e == L.chunk_at + L.chunk.end
        groups == SENSOR_DATA_MATCHER_groups(L.chunk.data)
        L1 == [L EXCEPT !.position = @ + Len(L.chunk.data),
                        !.events = Append(@, Event("data", s, e))]
    IN IF groups # << >>
       THEN IF groups[Len(groups)] = << 87 >>
            THEN PcoExtractSample(
                     [L1 EXCEPT !.particle_class = WaterClass(@)], groups, s, e)
            ELSE IF groups[Len(groups)] = << 65 >>
            THEN PcoExtractSample(
                     [L1 EXCEPT !.particle_class = AirClass(@)], groups, s, e)
            ELSE L1
       ELSE IF ~METADATA_MATCHER_match(L.chunk.data)
            THEN [L1 EXCEPT !.events = Append(@, Event("unknown", s, e))]
            ELSE L1

\* while chunk is not None: ...
RECURSIVE PcoWhile(_)
PcoWhile(L0) ==
    Only({ IF L.chunk.none THEN L
           ELSE Only({ IF B.exc # "none" THEN B ELSE PcoWhile(PcoFetch(B))
                       : B \in {PcoBody(L)} })
           : L \in {L0} })

PcoParseChunks(L) == PcoWhile(PcoFetch(L))

\* ------------------------------------------------------------ PD8 parser
\* MATCHER_LIST, in its order: the symbols of the lines each pattern matches.
MATCHER_LIST == << "data", "temp", "head", "time", "bin", "empty" >>

\* for matcher in MATCHER_LIST: line_match = matcher.match(chunk): the first
\* pattern that matches, "none" when none does.  Every pattern is anchored at
\* the start of the chunk and ends at the newline.
RECURSIVE FirstMatcher(_, _)
FirstMatcher(chunk, k) ==
    IF k > Len(MATCHER_LIST) THEN "none"
    ELSE IF Len(chunk) = 2 /\ chunk[1] = MATCHER_LIST[k] THEN MATCHER_LIST[k]
    ELSE FirstMatcher(chunk, k + 1)

\* self.metadata_matcher.match(chunk): METADATA_PATTERN is the timestamp, text
\* in brackets, an optional colon and the end of the line.  The line "meta"
\* ends with its bracket; the line "metatext" has more text after the bracket,
\* which the pattern has no place for.
Pd8MetadataMatch(chunk) == Len(chunk) = 2 /\ chunk[1] = "meta"

\* handle_non_data of DclFileCommonParser.
DclHandleNonData(L, non, start) ==
    [L EXCEPT !.events = handle_non_data(L.events, L.base, non, start)]

\* The record sieve of DclFileCommonParser: one frame per line.
DclRecordSpans(buf) == LineSpansFrom(buf, 0, 0)

Pd8FetchWith(L, spans) ==
    LET non == get_next_non_data_with_index(L.buf, spans)
        dat == get_next_data_with_index(L.buf, spans)
    IN [DclHandleNonData(L, non, dat.start) EXCEPT
                 !.chunk = dat,
                 !.chunk_at = L.base,
                 !.buf = CleanBuffer(L.buf, dat),
                 !.base = IF dat.none THEN L.base ELSE L.base + dat.end,
                 !.sieved = Append(@, [buf |-> L.buf, spans |-> spans])]

Pd8Fetch(L0) ==
    Only({ Only({ Pd8FetchWith(L, spans) : spans \in {DclRecordSpans(L.buf)} })
           : L \in {L0} })

\* The number of lines held in the five lists.
Accumulated(L) ==
    Len(L.sensor_data_list) + Len(L.sensor_temp_list) + Len(L.sensor_head_list)
        + Len(L.sensor_time_list) + Len(L.end_time_list)

\* A wrong version of ClearLists that leaves the data rows in place.
ClearListsKeepingData(L) ==
    [L EXCEPT !.sensor_temp_list = << >>,
              !.sensor_head_list = << >>,
              !.sensor_time_list = << >>,
              !.end_time_list = << >>]

\* del sensor_data_list[:] ... del end_time_list[:]
ClearLists(L) ==
    [L EXCEPT !.sensor_data_list = << >>,
              !.sensor_temp_list = << >>,
              !.sensor_head_list = << >>,
              !.sensor_time_list = << >>,
              !.end_time_list = << >>]

\* The branches of one turn of the while loop of AdcpPd8Parser.parse_chunks.
\* The terminator line is added to end_time_list and the five lists are then
\* emptied; no particle is built from them.
Pd8Line(L) ==
    LET s == L.chunk_at + L.chunk.start
        e == L.chunk_at + L.chunk.end
        matcher == FirstMatcher(L.chunk.data, 1)
        L1 == [L EXCEPT !.events = Append(@, Event("data", s, e))]
    IN CASE matcher = "data" ->
                [L1 EXCEPT !.sensor_data_list = Append(@, L.chunk.data[1])]
         [] matcher = "temp" ->
                [L1 EXCEPT !.sensor_temp_list = Append(@, L.chunk.data[1])]
         [] matcher = "head" ->
                [L1 EXCEPT !.sensor_head_list = Append(@, L.chunk.data[1])]
         [] matcher = "time" ->
                [L1 EXCEPT !.sensor_time_list = Append(@, L.chunk.data[1])]
         [] matcher = "empty" ->
                ClearLists([L1 EXCEPT !.end_time_list = Append(@, L.chunk.data[1])])
         [] matcher = "bin" -> L1
         [] matcher = "none" ->
                IF ~Pd8MetadataMatch(L.chunk.data)
                THEN [L1 EXCEPT !.events = Append(@, Event("unknown", s, e))]
                ELSE L1

\* One turn of the loop, with a note of the line it processed and of what the
\* lists held before and after it (history).
Pd8Body(L) ==
    Only({ [B EXCEPT !.acc_log =
                Append(@, [line |-> FirstMatcher(L.chunk.data, 1),
                           meta |-> Pd8MetadataMatch(L.chunk.data),
                           s |-> L.chunk_at + L.chunk.start,
                           before |-> Accumulated(L),
                           rows |-> Len(L.sensor_data_list),
                           after |-> Accumulated(B)])]
           : B \in {Pd8Line(L)} })

\* while chunk: ...
RECURSIVE Pd8While(_)
Pd8While(L0) ==
    Only({ IF L.chunk.data = << >> THEN L ELSE Pd8While(Pd8Fetch(Pd8Body(L)))
           : L \in {L0} })

Pd8ParseChunks(L) == Pd8While(Pd8Fetch(L))

\* ----------------------------------------------------------- input files
RECURSIVE Concat(_)
Concat(ss) == IF ss = << >> THEN << >> ELSE Head(ss) \o Concat(Tail(ss))

\* A WVS header: sync word, two spare bytes, the record size, three spare
\* bytes, the number of data types.
Hdr(size, ndt) == << 127, 122, 0, 0 >> \o LE32(size) \o << 0, 0, 0, ndt >>

\* The segments WVS input files are built from: a record with no data types,
\* one with an Unknown data type and ten further bytes, one with a velocity
\* spectrum of one frequency, one with a data type id that func_dict does not
\* have, one whose spectrum array is missing, three bytes that are no record,
\* and the "padded" record with its last ten bytes removed.
WvsSegment(name) ==
    CASE name = "plain" -> Hdr(12, 0)
      [] name = "padded" ->
             Hdr(28, 1) \o LE32(16) \o LE16(Unknown) \o [k \in 1..10 |-> 0]
      [] name = "vspec" ->
             Hdr(24, 1) \o LE32(16) \o LE16(Velocity_Spectrum) \o LE16(1) \o LE32(5)
      [] name = "badid" -> Hdr(18, 1) \o LE32(16) \o LE16(Amplitude_Time_Series)
      [] name = "short" ->
             Hdr(20, 1) \o LE32(16) \o LE16(Velocity_Spectrum) \o LE16(1)
      [] name = "junk" -> << 1, 2, 3 >>
      [] name = "truncated" ->
             SubSeq(Hdr(28, 1) \o LE32(16) \o LE16(Unknown) \o [k \in 1..10 |-> 0],
                    1, 18)

WvsSegNames == {"plain", "padded", "vspec", "badid", "short", "junk", "truncated"}

\* The lines pco input files are built from; "frag" is text with no newline.
PcoSegNames == {"W", "A", "Q", "Wbad", "meta", "junk", "frag"}
PcoSegment(name) == IF name = "frag" THEN << "frag" >> ELSE << name, "nl" >>

\* The segments PD8 input files are built from: an ensemble of two data rows,
\* an ensemble without its terminator line, an ensemble without its heading
\* line, one with two heading lines, one with no data row, single lines (two
\* metadata records, one ending with its bracket and one with more text after
\* it, a line that is no record, and text with no newline).
Pd8SegNames ==
    {"ensemble", "partial", "nohead", "twohead", "norows",
     "meta", "metatext", "junk", "frag"}
Pd8Segment(name) ==
    CASE name = "ensemble" ->
             << "time", "nl", "head", "nl", "temp", "nl", "bin", "nl",
                "data", "nl", "data", "nl", "empty", "nl" >>
      [] name = "partial" ->
             << "time", "nl", "head", "nl", "temp", "nl", "bin", "nl",
                "data", "nl" >>
      [] name = "nohead" ->
             << "time", "nl", "temp", "nl", "bin", "nl",
                "data", "nl", "empty", "nl" >>
      [] name = "twohead" ->
             << "time", "nl", "head", "nl", "head", "nl", "temp", "nl",
                "bin", "nl", "data", "nl", "empty", "nl" >>
      [] name = "norows" ->
             << "time", "nl", "head", "nl", "temp", "nl", "bin", "nl",
                "empty", "nl" >>
      [] name = "frag" -> << "frag" >>
      [] OTHER -> << name, "nl" >>

Kinds == {"wvs", "pco", "pd8"}

SegNames(k) ==
    CASE k = "wvs" -> WvsSegNames [] k = "pco" -> PcoSegNames [] k = "pd8" -> Pd8SegNames
Segment(k, name) ==
    CASE k = "wvs" -> WvsSegment(name)
      [] k = "pco" -> PcoSegment(name)
      [] k = "pd8" -> Pd8Segment(name)

\* The particle classes a parser of kind k can be constructed with.
Classes(k) ==
    CASE k = "wvs" -> {"AdcptMWVSInstrumentDataParticle"}
      [] k = "pco" -> {PcoAir, PcoWaterRecovered}
      [] k = "pd8" -> {"AdcptPd8ARecoveredInstrumentDataParticle"}

\* The lists of segment names of the input files of parser kind k.
SegLists(k) == UNION { [1..n -> SegNames(k)] : n \in 0..MaxSegs }

FileOf(k, sl) == Concat([j \in 1..Len(sl) |-> Segment(k, sl[j])])

\* Stream offset at which segment j of the file starts.
SegStart(k, sl, j) == Len(FileOf(k, SubSeq(sl, 1, j - 1)))

\* File names: one that FILE_NAME_MATCHER matches for each (sequence number,
\* file time), and one it does not match.
Names ==
    { [match |-> TRUE, seq |-> 0, time |-> 21],
      [match |-> FALSE, seq |-> None, time |-> None] }

\* ------------------------------------------------------------------ state
VARIABLES
    kind,    \* which parser class is used: "wvs", "pd8" or "pco"
    segs,    \* the segment names the input file was built from (history)
    file,    \* the content of the input file
    fname,   \* fname[i]: the name of the file parser i reads
    cls,     \* class attributes of AdcptMWVSInstrumentDataParticle
    parser,  \* parser[i]: the fields of parser object i
    call     \* a method called on its own: its arguments, then its outcome

vars == << kind, segs, file, fname, cls, parser, call >>

\* No method is called on its own.
NoCall == [op |-> "none", pc |-> "off"]

Insts == {1, 2}

\* A parser after construction.  pc is "idle" between get_records calls,
\* "loading" inside the loop of get_records, "raised" once an exception has
\* left get_records, and "off" for a parser that is never constructed.
NewParser(pc, particle_class) ==
    [pc |-> pc,
     particle_class |-> particle_class,
     init_class |-> particle_class, \* the class given at construction (history)
     position |-> 0,            \* _read_state[POSITION] of the pco parser
     want |-> 0,                \* num_records of the call in progress
     calls |-> 0,               \* get_records calls made so far
     pos |-> 0,                 \* position of the stream handle
     buf |-> << >>,             \* the chunker's buffer
     base |-> 0,                \* stream offset of buf's first byte (history)
     record_buffer |-> << >>,   \* _record_buffer
     file_complete |-> FALSE,
     exc |-> "none",            \* the exception that left get_records
     call_eof |-> FALSE,        \* file_complete when the call in progress began
     out |-> << >>,             \* the get_records calls that returned (history)
     produced |-> << >>,        \* all particles parse_chunks returned (history)
     events |-> << >>,          \* see Event (history)
     ev_before |-> 0,           \* Len(events) before the last block (history)
     acc_log |-> << >>,         \* the lines the PD8 loop processed (history)
     capture_failure |-> FALSE, \* the particle data handler's failure mark
     sieved |-> << >>]          \* the sieve calls made so far (history)

Init ==
    /\ kind \in Kinds
    /\ segs \in SegLists(kind)
    /\ file = FileOf(kind, segs)
    /\ \E n \in Names : fname = [i \in Insts |-> n]
    /\ cls = ClassDefault
    /\ \E c \in Classes(kind) :
           parser = [i \in Insts |-> NewParser(IF i = 1 THEN "idle" ELSE "off", c)]
    /\ call = NoCall

\* Two parsers, run one after the other on the same content; the second may
\* read it under another file name.
InitTwo ==
    /\ kind \in Kinds
    /\ segs \in SegLists(kind)
    /\ file = FileOf(kind, segs)
    /\ fname \in [Insts -> Names]
    /\ cls = ClassDefault
    /\ \E c \in Classes(kind) : parser = [i \in Insts |-> NewParser("idle", c)]
    /\ call = NoCall

\* The caller is done with parser i.
Finished(i) ==
    \/ parser[i].pc = "raised"
    \/ parser[i].pc = "idle" /\ parser[i].file_complete

\* ------------------------------------------------------------ get_records
\* A wrong version of _yank_particles that leaves the returned records in the
\* record buffer.
YankKeeping(p, n) ==
    LET k == IF Len(p.record_buffer) < n THEN Len(p.record_buffer) ELSE n IN
    [p EXCEPT !.out = Append(@, [n |-> n, eof |-> p.call_eof,
                                 recs |-> SubSeq(p.record_buffer, 1, k)])]

\* _yank_particles(num_records)
Yank(p, n) ==
    LET k == IF Len(p.record_buffer) < n THEN Len(p.record_buffer) ELSE n IN
    [p EXCEPT !.out = Append(@, [n |-> n, eof |-> p.call_eof,
                                 recs |-> SubSeq(p.record_buffer, 1, k)]),
              !.record_buffer = SubSeq(@, k + 1, Len(@))]

\* parse_chunks of the parser class in use.
ParseChunks(k, L, name) ==
    CASE k = "wvs" -> WvsParseChunks(L, name)
      [] k = "pco" -> PcoParseChunks(L)
      [] k = "pd8" -> Pd8ParseChunks(L)

\* get_block's read size.
BlockOf(k) == IF k = "wvs" THEN BlockSize ELSE LineBlock

\* _process_end_of_file: what is left in the chunker when the stream is
\* exhausted is non-data, reported once and dropped.
ProcessEndOfFile(p) ==
    IF p.buf = << >> THEN p
    ELSE [p EXCEPT !.events = Append(@, Event("nondata", p.base, p.base + Len(p.buf))),
                   !.base = p.base + Len(p.buf),
                   !.buf = << >>]

\* ---------------------------------------------------------------- drivers
\* The exception callback each driver entry point hands to its parser, as the
\* value it leaves in the particle data handler's capture-failure mark.
\* AdcptAcfgmDclPd8Driver.process: setParticleDataCaptureFailure().
Pd8ExceptionCallback(failure) == TRUE

\* pco_2a_dcl_telemetered_driver and pco_2a_dcl_recovered_driver:
\* def exception_callback(state): pass.
PcoExceptionCallback(failure) == failure

\* SimpleDatasetDriver._exception_callback, used by the WVS driver.
SimpleExceptionCallback(failure) == TRUE

exception_callback(k, failure) ==
    CASE k = "wvs" -> SimpleExceptionCallback(failure)
      [] k = "pco" -> PcoExceptionCallback(failure)
      [] k = "pd8" -> Pd8ExceptionCallback(failure)

\* The mark after the reports among events[from + 1 ..] have been delivered
\* to the driver's callback.
Delivered(k, failure, events, from) ==
    IF \E n \in (from + 1)..Len(events) : events[n].k # "data"
    THEN exception_callback(k, failure)
    ELSE failure

\* get_records(n), up to the first read: returns at once when the record
\* buffer already holds n records.
GetRecords(i, n) ==
    /\ parser[i].pc = "idle"
    /\ parser[i].calls < MaxCalls
    /\ i = 2 => Finished(1)
    /\ LET p == [parser[i] EXCEPT !.calls = @ + 1, !.want = n,
                                  !.call_eof = parser[i].file_complete] IN
       parser' = [parser EXCEPT ![i] =
                     IF Len(p.record_buffer) >= n THEN Yank(p, n)
                     ELSE [p EXCEPT !.pc = "loading"]]
    /\ UNCHANGED << kind, segs, file, fname, cls, call >>

\* AdcpPd8Parser._load_particle_buffer reads block after block until the
\* stream is exhausted; the other parsers stop pulling once the requested
\* number of records is available.
LoadsWholeFile(k) == k = "pd8"

\* One turn of the loading loop: get_block reads a block into the chunker,
\* parse_chunks runs, its result extends the record buffer.
LoadBlock(i) ==
    /\ parser[i].pc = "loading"
    /\ parser[i].pos < Len(file)
    /\ LET p == parser[i]
           last == IF p.pos + BlockOf(kind) < Len(file)
                   THEN p.pos + BlockOf(kind) ELSE Len(file)
       IN \E L \in { ParseChunks(kind,
                         Local(p.buf \o SubSeq(file, p.pos + 1, last), p.base,
                               p.events, cls, p.particle_class, p.position),
                         fname[i]) } :
          \E q \in { [p EXCEPT !.pos = last,
                               !.buf = L.buf,
                               !.base = L.base,
                               !.events = L.events,
                               !.ev_before = Len(p.events),
                               !.capture_failure =
                                   Delivered(kind, @, L.events, Len(p.events)),
                               !.sieved = @ \o L.sieved,
                               !.acc_log = @ \o L.acc_log,
                               !.exc = L.exc,
                               !.particle_class = L.particle_class,
                               !.position = L.position,
                               !.pc = IF L.exc = "none" THEN "loading" ELSE "raised",
                               !.produced =
                                   IF L.exc = "none" THEN @ \o L.result ELSE @,
                               !.record_buffer =
                                   IF L.exc = "none" THEN @ \o L.result ELSE @] } :
             /\ parser' = [parser EXCEPT ![i] =
                    IF /\ L.exc = "none"
                       /\ ~LoadsWholeFile(kind)
                       /\ Len(q.record_buffer) >= q.want
                    THEN Yank([q EXCEPT !.pc = "idle"], q.want)
                    ELSE q]
             /\ cls' = L.cls
    /\ UNCHANGED << kind, segs, file, fname, call >>

\* get_block finds the stream exhausted: EOFError ends the loop,
\* _process_end_of_file runs and get_records returns what it has.
EndOfFile(i) ==
    /\ parser[i].pc = "loading"
    /\ parser[i].pos = Len(file)
    /\ \E q \in { ProcessEndOfFile(parser[i]) } :
           parser' = [parser EXCEPT ![i] =
               Yank([q EXCEPT !.file_complete = TRUE,
                              !.pc = "idle",
                              !.capture_failure =
                                  Delivered(kind, @, q.events,
                                            Len(parser[i].events))],
                    parser[i].want)]
    /\ UNCHANGED << kind, segs, file, fname, cls, call >>

Next ==
    \E i \in Insts :
        \/ \E n \in 1..MaxCount : GetRecords(i, n)
        \/ LoadBlock(i)
        \/ EndOfFile(i)

Spec == Init /\ [][Next]_vars

\* The first parser is asked for one record at a time, the second for
\* MaxCount at a time.
NextTwo ==
    \/ GetRecords(1, 1)
    \/ GetRecords(2, MaxCount)
    \/ \E i \in Insts : LoadBlock(i)
    \/ \E i \in Insts : EndOfFile(i)

SpecTwo == InitTwo /\ [][NextTwo]_vars

\* ------------------------------------------------------------ check_bit
\* The characters check_bit is called with: the hex digits and two that are
\* none.
DecChars == << "0", "1", "2", "3", "4", "5", "6", "7", "8", "9" >>
UpperChars == << "A", "B", "C", "D", "E", "F" >>
LowerChars == << "a", "b", "c", "d", "e", "f" >>
Range(q) == { q[n] : n \in DOMAIN q }
HexChars == Range(DecChars) \cup Range(UpperChars) \cup Range(LowerChars)
OtherChars == {"G", "x"}

\* The position of c in the sequence q.
IndexIn(q, c) == CHOOSE n \in DOMAIN q : q[n] = c

\* int(hex_value) of a one-character string: the number, or ValueError for a
\* character that is no decimal digit.
IntParses(hex_value) == hex_value \in Range(DecChars)
IntOf(hex_value) == IndexIn(DecChars, hex_value) - 1

\* '{0:04b}'.format(value): four binary digits, most significant first.
Format04b(value) ==
    << (value \div 8) % 2, (value \div 4) % 2, (value \div 2) % 2, value % 2 >>

\* binary.find('1', index, index + 1) > -1: the character at zero-based
\* position index of the string is '1'; the slice is empty past its end.
FindOne(binary, index) == index + 1 \in DOMAIN binary /\ binary[index + 1] = 1

\* AdcpPd8Parser.check_bit.  int(hex_value) is evaluated first and raises
\* ValueError for a letter; the tests `hex == 'a'` compare the builtin
\* function hex with a string and are false.
check_bit(hex_value, index) ==
    IF ~IntParses(hex_value)
    THEN [exc |-> "ValueError", reports |-> << >>, ret |-> None]
    ELSE LET known == \/ (10 > IntOf(hex_value) /\ IntOf(hex_value) >= 0)
                      \/ hex_value \in Range(UpperChars)
             value == CASE 10 > IntOf(hex_value) /\ IntOf(hex_value) >= 0 ->
                               IntOf(hex_value)
                        [] hex_value \in Range(UpperChars) ->
                               9 + IndexIn(UpperChars, hex_value)
                        [] OTHER -> 0
             r1 == IF known THEN << >> ELSE << "UnexpectedDataException" >>
             r2 == IF index > 3 THEN << "UnexpectedDataException" >> ELSE << >>
         IN [exc |-> "none",
             reports |-> r1 \o r2,
             ret |-> IF FindOne(Format04b(value), index) THEN 1 ELSE 0]

\* check_bit is called with one character and one index.
InitBit ==
    /\ kind = "pd8"
    /\ segs = << >>
    /\ file = << >>
    /\ \E n \in Names : fname = [i \in Insts |-> n]
    /\ cls = ClassDefault
    /\ \E c \in Classes("pd8") : parser = [i \in Insts |-> NewParser("off", c)]
    /\ \E h \in HexChars \cup OtherChars : \E x \in 0..MaxIndex :
           call = [op |-> "check_bit", pc |-> "called", hex_value |-> h, index |-> x]

CheckBit ==
    /\ call.op = "check_bit"
    /\ call.pc = "called"
    /\ \E r \in { check_bit(call.hex_value, call.index) } :
           call' = [op |-> "check_bit", pc |-> "done",
                    hex_value |-> call.hex_value, index |-> call.index,
                    exc |-> r.exc, reports |-> r.reports, ret |-> r.ret]
    /\ UNCHANGED << kind, segs, file, fname, cls, parser >>

SpecBit == InitBit /\ [][CheckBit]_vars

\* ------------------------------------------------ decoding one WVS record
\* A record of one data type: header, one offset, the type id, the body.
OneTypeRecord(id, body) ==
    Hdr(18 + Len(body), 1) \o LE32(16) \o LE16(id) \o body

\* n zero bytes.
Zeros(n) == [k \in 1..n |-> 0]

\* The numbers 1..n as elements of 2 or 4 bytes.
Elems16(n) == Concat([k \in 1..n |-> LE16(k)])
Elems32(n) == Concat([k \in 1..n |-> LE32(k)])

\* The start_time values the variable leaders below hold: century, year,
\* month, day, hour, minute, second, hundredths.  Month 0 is what a leader
\* that was never filled in holds.
StartTimes ==
    { << c, y, mo, d, h, 30, sec, hs >> :
        c \in {19, 20}, y \in {14, 30}, mo \in {0, 2, 12}, d \in {1, 31},
        h \in {0, 23}, sec \in {0, 59}, hs \in {0, 99} }

\* The records decoded on their own, each with a description of its content:
\* variable leaders, the three spectra, directional spectra and
\* heading/pitch/roll series with every count up to MaxElems, followed by
\* pad further bytes.
DecodeInputs ==
    { [type |-> "vleader", st |-> st, counts |-> << >>, pad |-> 0,
       raw |-> OneTypeRecord(Variable_Leader, st \o Zeros(198))] :
        st \in StartTimes }
    \cup
    { [type |-> "spectrum", st |-> << >>, counts |-> << n >>, pad |-> pad,
       raw |-> OneTypeRecord(id, LE16(n) \o Elems32(n) \o Zeros(pad))] :
        id \in {Velocity_Spectrum, Surface_Track_Spectrum, Pressure_Spectrum},
        n \in 0..MaxElems, pad \in {0, 4} }
    \cup
    { [type |-> "directional", st |-> << >>, counts |-> << f, d >>, pad |-> pad,
       raw |-> OneTypeRecord(Directional_Spectrum,
                   LE16(f) \o LE16(d) \o LE16(1) \o Elems32(f * d)
                   \o Zeros(pad))] :
        f \in 0..MaxElems, d \in 0..MaxElems, pad \in {0, 4} }
    \cup
    { [type |-> "hpr", st |-> << >>, counts |-> << n >>, pad |-> pad,
       raw |-> OneTypeRecord(Heading_Pitch_Roll_Time_Series,
                   LE16(n) \o LE16(20) \o LE16(0) \o Elems16(3 * n)
                   \o Zeros(pad))] :
        n \in 0..MaxElems, pad \in {0, 4} }

\* One framed record is about to be decoded.
InitDecode ==
    /\ kind = "wvs"
    /\ segs = << >>
    /\ file = << >>
    /\ \E n \in Names : fname = [i \in Insts |-> n]
    /\ cls = ClassDefault
    /\ \E c \in Classes("wvs") : parser = [i \in Insts |-> NewParser("off", c)]
    /\ \E in \in DecodeInputs :
           call = [op |-> "decode", pc |-> "called", in |-> in]

\* _build_parsed_values runs on the record.
BuildParsedValues ==
    /\ call.op = "decode"
    /\ call.pc = "called"
    /\ \E d \in { _build_parsed_values(call.in.raw, cls) } :
           call' = [op |-> "decode", pc |-> "done", in |-> call.in,
                    exc |-> d.exc, values |-> d.values, ts |-> d.ts]
    /\ UNCHANGED << kind, segs, file, fname, cls, parser >>

SpecDecode == InitDecode /\ [][BuildParsedValues]_vars

\* ---------------------------------------------------------- FCoeff parser
\* The lines of an FCoeff file.  t is "empty" (a bare newline), "dirfreq"
\* ('% nf Fields and nq Frequencies'), "band" ('% Frequency Bands are ...'),
\* "comment" (another line starting with '%'), "row" (n numbers, each after
\* a space) or "junk" (anything else).
FcoeffLine(t, nf, nq, n) == [t |-> t, nf |-> nf, nq |-> nq, n |-> n]
FcoeffLines ==
    { FcoeffLine("empty", 0, 0, 0), FcoeffLine("comment", 0, 0, 0),
      FcoeffLine("band", 0, 0, 0), FcoeffLine("dirfreq", 2, 1, 0),
      FcoeffLine("dirfreq", 2, 2, 0), FcoeffLine("row", 0, 0, 2),
      FcoeffLine("row", 0, 0, 3), FcoeffLine("junk", 0, 0, 0) }

RECURSIVE SeqsUpTo(_, _)
SeqsUpTo(S, n) ==
    IF n = 0 THEN { << >> }
    ELSE SeqsUpTo(S, n - 1)
         \cup { Append(q, x) : q \in { r \in SeqsUpTo(S, n - 1) : Len(r) = n - 1 },
                               x \in S }

\* The names of FCoeff files: match says whether FILE_NAME_MATCHER matches,
\* time is the digit group (YYMMDDHHmm when it has ten digits).
FcoeffNames ==
    { [match |-> TRUE, time |-> << 1, 4, 0, 4, 1, 5, 0, 9, 3, 0 >>],
      [match |-> TRUE, time |-> << 1, 2 >>],
      [match |-> FALSE, time |-> << >>] }

FCOEFF_DATA_MAP ==
    << << "file_time", 0, "str" >>,
       << "num_fields", 1, "int" >>,
       << "num_freq", 2, "int" >>,
       << "freq_w_band", 3, "float" >>,
       << "freq_0", 4, "float" >>,
       << "frequency_band", 5, "list" >>,
       << "bandwidth_band", 6, "list" >>,
       << "energy_density_band", 7, "list" >>,
       << "direction_band", 8, "list" >>,
       << "a1_band", 9, "list" >>,
       << "b1_band", 10, "list" >>,
       << "a2_band", 11, "list" >>,
       << "b2_band", 12, "list" >>,
       << "check_factor_band", 13, "list" >> >>

\* AdcptMDspecInstrumentDataParticle.__init__: DATE_TIME_MATCHER needs ten
\* digits at the start of file_time, else SampleException; timegm raises
\* ValueError for month 0.
FcoeffInit(raw_data) ==
    LET file_time == raw_data[1] IN
    IF Len(file_time) < 10 THEN [exc |-> "SampleException", ts |-> NoTimestamp]
    ELSE LET t == timegm(file_time[1] * 10 + file_time[2] + 2000,
                         file_time[3] * 10 + file_time[4],
                         file_time[5] * 10 + file_time[6],
                         file_time[7] * 10 + file_time[8],
                         file_time[9] * 10 + file_time[10], 0)
         IN IF t.ok THEN [exc |-> "none", ts |-> << t.secs >>]
            ELSE [exc |-> "ValueError", ts |-> NoTimestamp]

\* AdcptMDspecInstrumentDataParticle._build_parsed_values: the list
\* comprehension reads self.raw_data[group] for every entry of the map, and
\* raises IndexError for a group past the end of raw_data.  A value is kept
\* with the name of the function it is handed to.
FcoeffBuildParsedValues(raw_data) ==
    IF \E k \in DOMAIN FCOEFF_DATA_MAP : FCOEFF_DATA_MAP[k][2] >= Len(raw_data)
    THEN Decoded("IndexError", << >>, NoTimestamp)
    ELSE Decoded("none",
                 [k \in DOMAIN FCOEFF_DATA_MAP |->
                     [id |-> FCOEFF_DATA_MAP[k][1],
                      kind |-> FCOEFF_DATA_MAP[k][3],
                      v |-> raw_data[FCOEFF_DATA_MAP[k][2] + 1]]],
                 NoTimestamp)

\* _extract_sample(AdcptMDspecInstrumentDataParticle, None, parsed_data,
\* None): the particle is constructed and its values are built; an exception
\* of either step that is no sample exception leaves _extract_sample.
FcoeffExtractSample(parsed_data) ==
    LET init == FcoeffInit(parsed_data)
        d == FcoeffBuildParsedValues(parsed_data)
    IN IF init.exc # "none" THEN [exc |-> init.exc, particle |-> << >>]
       ELSE IF d.exc # "none" THEN [exc |-> d.exc, particle |-> << >>]
       ELSE [exc |-> "none",
             particle |-> << Particle("adcpt_m_instrument_fcoeff_recovered",
                                      Decoded("none", d.values, init.ts), 0, 0) >>]

\* parse_file is about to run on a file of up to MaxLines lines.
InitFcoeff ==
    /\ kind = "wvs"
    /\ segs = << >>
    /\ file = << >>
    /\ \E n \in Names : fname = [i \in Insts |-> n]
    /\ cls = ClassDefault
    /\ \E c \in Classes("wvs") : parser = [i \in Insts |-> NewParser("off", c)]
    /\ \E lines \in SeqsUpTo(FcoeffLines, MaxLines) : \E name \in FcoeffNames :
           call = [op |-> "parse_file", pc |-> "start", lines |-> lines,
                   name |-> name, at |-> 0,
                   file_time |-> << 0, 0, 0, 1, 0, 1, 0, 0, 0, 0 >>,
                   num_fields |-> 0, num_freq |-> 0,
                   freq_w_band |-> "0.0", freq_0 |-> "0.0",
                   dspec_matrix |-> << >>, reports |-> << >>,
                   parsed_data |-> << >>, record_buffer |-> << >>,
                   exc |-> "none"]

\* parse_file up to the first readline: the file time from the file name.
FcoeffFileName ==
    /\ call.op = "parse_file"
    /\ call.pc = "start"
    /\ call' = [call EXCEPT
                   !.pc = "reading",
                   !.file_time = IF call.name.match THEN call.name.time ELSE @,
                   !.reports = IF call.name.match THEN @
                               ELSE Append(@, [k |-> "filename", at |-> 0])]
    /\ UNCHANGED << kind, segs, file, fname, cls, parser >>

\* One turn of the while loop of parse_file on the next line.
FcoeffReadLine ==
    /\ call.op = "parse_file"
    /\ call.pc = "reading"
    /\ call.at < Len(call.lines)
    /\ LET line == call.lines[call.at + 1]
           c == [call EXCEPT !.at = @ + 1]
       IN call' =
            CASE line.t = "empty" -> c
              [] line.t = "dirfreq" ->
                     [c EXCEPT !.num_fields = line.nf, !.num_freq = line.nq]
              [] line.t = "band" ->
                     [c EXCEPT !.freq_w_band = "w", !.freq_0 = "f0"]
              [] line.t = "comment" -> c
              [] line.t = "row" ->
                     IF line.n # call.num_fields
                     THEN [c EXCEPT !.reports =
                               Append(@, [k |-> "fields", at |-> call.at + 1])]
                     ELSE [c EXCEPT !.dspec_matrix = Append(@, line.n)]
              [] OTHER ->
                     [c EXCEPT !.reports =
                          Append(@, [k |-> "unknown", at |-> call.at + 1])]
    /\ UNCHANGED << kind, segs, file, fname, cls, parser >>

\* The end of parse_file: the row count is checked, parsed_data is built and
\* the particle extracted from it is appended to the record buffer.
FcoeffEndOfFile ==
    /\ call.op = "parse_file"
    /\ call.pc = "reading"
    /\ call.at = Len(call.lines)
    /\ LET reports == IF Len(call.dspec_matrix) # call.num_freq
                      THEN Append(call.reports, [k |-> "freq", at |-> call.at + 1])
                      ELSE call.reports
           parsed_data == << call.file_time, call.num_fields, call.num_freq,
                             call.freq_w_band, call.freq_0, call.dspec_matrix >>
       IN \E x \in { FcoeffExtractSample(parsed_data) } :
              call' = [call EXCEPT
                         !.pc = "done",
                         !.reports = reports,
                         !.parsed_data = parsed_data,
                         !.exc = x.exc,
                         !.record_buffer = IF x.exc = "none" THEN x.particle ELSE @]
    /\ UNCHANGED << kind, segs, file, fname, cls, parser >>

NextFcoeff == FcoeffFileName \/ FcoeffReadLine \/ FcoeffEndOfFile

SpecFcoeff == InitFcoeff /\ [][NextFcoeff]_vars

\* ------------------------------------------------------------------ C1
\* The offsets of buf at which a complete 12-byte header starts.
HeadersIn(buf) ==
    { s \in 0..(Len(buf) - 12) : buf[s + 1] = 127 /\ buf[s + 2] = 122 }

FirstHeader(buf) == CHOOSE s \in HeadersIn(buf) : \A t \in HeadersIn(buf) : s <= t

Exhausted(i) == parser[i].pc = "idle" /\ parser[i].file_complete

\* The positions of parser i's events of the kinds in ks.
EventsOf(i, ks) == { k \in DOMAIN parser[i].events : parser[i].events[k].k \in ks }

\* The events that classify bytes: frames handed to the decoder and reported
\* non-data spans, in the order they happened.
IsSpanEvent(ev) == ev.k \in {"data", "nondata"}
SpanEvents(i) == SelectSeq(parser[i].events, IsSpanEvent)

\* The reports made to the exception callback.
IsReport(ev) == ev.k \in {"nondata", "unknown", "encoding"}
Reports(i) == SelectSeq(parser[i].events, IsReport)

\* The records get_records has returned so far, in order.
Returned(i) == Concat([k \in 1..Len(parser[i].out) |-> parser[i].out[k].recs])

LastSeg == segs[Len(segs)]
LastSegStart == SegStart(kind, segs, Len(segs))

\* ------------------------------------------------------------------ C2
\* The file ends with a record that has lost its last ten bytes, after
\* segments that are whole.
EndsTruncated ==
    /\ kind = "wvs"
    /\ segs # << >>
    /\ LastSeg = "truncated"
    /\ \A j \in 1..(Len(segs) - 1) : segs[j] # "truncated"

\* C2: when the stream is exhausted while the buffer holds a partial WVS
\* record, no particle is built from its bytes and the exception callback gets
\* exactly one non-data report covering it; nothing reports it before the
\* stream has ended, and further get_records calls do not report it again.
C2_PartialRecordReportedOnce ==
    \A i \in Insts :
        EndsTruncated =>
            /\ \A k \in DOMAIN parser[i].produced :
                   parser[i].produced[k].e <= LastSegStart
            /\ \A k \in EventsOf(i, {"data"}) :
                   parser[i].events[k].e <= LastSegStart
            /\ Cardinality({ k \in EventsOf(i, {"nondata"}) :
                               parser[i].events[k].e > LastSegStart })
                   = (IF parser[i].file_complete THEN 1 ELSE 0)
            /\ \A k \in EventsOf(i, {"nondata"}) :
                   parser[i].events[k].e > LastSegStart =>
                       /\ parser[i].events[k].s <= LastSegStart
                       /\ parser[i].events[k].e = Len(file)

\* A record, then a truncated record: the stream has been exhausted and
\* get_records has been called once more after that.
C2_Witness ==
    /\ EndsTruncated
    /\ segs[1] = "vspec"
    /\ Exhausted(1)
    /\ Len(parser[1].produced) = 1
    /\ \E k \in DOMAIN parser[1].out : parser[1].out[k].eof

\* ------------------------------------------------------------------ C3
\* The number of span events of parser i that cover byte b of the stream.
Covering(i, b) ==
    Cardinality({ k \in EventsOf(i, {"data", "nondata"}) :
                    parser[i].events[k].s <= b /\ b < parser[i].events[k].e })

C4_StreamOrder ==
    \A i \in Insts :
        /\ \A k \in 1..(Len(SpanEvents(i)) - 1) :
               /\ SpanEvents(i)[k].e <= SpanEvents(i)[k + 1].s
               /\ SpanEvents(i)[k].s < SpanEvents(i)[k + 1].s
        /\ \A k \in 1..(Len(parser[i].produced) - 1) :
               parser[i].produced[k].e <= parser[i].produced[k + 1].s
        /\ \A k \in DOMAIN parser[i].produced :
               \E j \in EventsOf(i, {"data"}) :
                   /\ parser[i].events[j].s = parser[i].produced[k].s
                   /\ parser[i].events[j].e = parser[i].produced[k].e

\* A non-data span reported before the frame that follows it, and the
\* particle of that frame.
C4_Witness ==
    /\ kind = "wvs"
    /\ Len(SpanEvents(1)) = 2
    /\ SpanEvents(1)[1].k = "nondata"
    /\ SpanEvents(1)[2].k = "data"
    /\ Len(parser[1].produced) = 1

\* ------------------------------------------------------------------ C5
\* The segments in which exactly one field cannot be converted or unpacked,
\* and the fields of such a record that are valid.
OneBadField(k) ==
    CASE k = "wvs" -> {"short"} [] k = "pco" -> {"Wbad"} [] OTHER -> {}
BadField(k) == IF k = "wvs" THEN "vspec_dat" ELSE "gas_stream_pressure"
GoodFields(k) ==
    IF k = "wvs" THEN {"vspec_num_freq"}
    ELSE { INSTRUMENT_PARTICLE_MAP(TRUE)[j][1] : j \in 1..11 } \ {"gas_stream_pressure"}

\* The frame of segment j has been handed to the decoder by parser i.
RecordDecoded(i, j) ==
    \E k \in EventsOf(i, {"data"}) :
        /\ parser[i].events[k].s = SegStart(kind, segs, j)
        /\ parser[i].events[k].e = SegStart(kind, segs, j + 1)

\* C5: a record with exactly one field that cannot be converted or unpacked
\* still gives a particle with every other field converted, the bad field
\* null or left out, and exactly one report to the exception callback.
C5_FieldIndependence ==
    \A i \in Insts : \A j \in DOMAIN segs :
        (segs[j] \in OneBadField(kind) /\ RecordDecoded(i, j)) =>
            /\ \E k \in DOMAIN parser[i].produced :
                   LET p == parser[i].produced[k] IN
                   /\ p.s = SegStart(kind, segs, j)
                   /\ \A f \in GoodFields(kind) :
                          \E n \in DOMAIN p.values :
                              p.values[n].id = f /\ p.values[n].kind # "null"
                   /\ \A n \in DOMAIN p.values :
                          p.values[n].id = BadField(kind) => p.values[n].kind = "null"
            /\ Cardinality({ k \in EventsOf(i, {"nondata", "unknown", "encoding"}) :
                               parser[i].events[k].s = SegStart(kind, segs, j) }) = 1

\* ------------------------------------------------------------------ C6
\* The value of field f of particle p is v.
HasValue(p, f, v) ==
    \E n \in DOMAIN p.values : p.values[n].id = f /\ p.values[n].v = v

\* C6: PD8 input made of complete well-formed ensembles gives exactly one
\* particle per ensemble, with num_cells equal to the number of data rows, and
\* no report to the exception callback; get_records(1) on one ensemble
\* returns exactly one particle.
C6_OneParticlePerEnsemble ==
    \A i \in Insts :
        (/\ kind = "pd8"
         /\ segs # << >>
         /\ \A j \in DOMAIN segs : segs[j] = "ensemble"
         /\ Exhausted(i)) =>
            /\ Len(parser[i].produced) = Len(segs)
            /\ \A k \in DOMAIN parser[i].produced :
                   HasValue(parser[i].produced[k], "num_cells", << 2 >>)
            /\ Reports(i) = << >>
            /\ (parser[i].out[1].n = 1 /\ Len(segs) = 1)
                   => Len(parser[i].out[1].recs) = 1

\* ------------------------------------------------------------------ C7
\* C7: when a PD8 stream ends in the middle of an ensemble, no record is
\* emitted for the lines of that ensemble and exactly one error is reported
\* for it.
C7_PartialRecordIsolation ==
    \A i \in Insts :
        (/\ kind = "pd8"
         /\ segs # << >>
         /\ LastSeg = "partial"
         /\ Exhausted(i)) =>
            /\ \A k \in DOMAIN parser[i].produced :
                   parser[i].produced[k].e <= LastSegStart
            /\ Cardinality({ k \in EventsOf(i, {"nondata", "unknown", "encoding"}) :
                               parser[i].events[k].e > LastSegStart }) = 1

\* ------------------------------------------------------------------ C8
\* C8: no exception leaves the parse loop, whatever the input.
C8_ParseLoopNeverRaises ==
    \A i \in Insts : parser[i].pc # "raised"

\* ------------------------------------------------------------------ C9
\* The number of records returned by the calls before call k.
RECURSIVE ReturnedBefore(_, _)
ReturnedBefore(i, k) ==
    IF k <= 1 THEN 0
    ELSE ReturnedBefore(i, k - 1) + Len(parser[i].out[k - 1].recs)

\* C9: every get_records(n) call returns at most n records, and fewer than n
\* only when the stream is exhausted; the records returned so far followed by
\* the buffered ones are the records produced so far, in order, each once; a
\* call made after the stream is exhausted returns what is left, up to n,
\* which is the empty list once everything has been returned.
C9_GetRecordsExactlyOnce ==
    \A i \in Insts :
        /\ parser[i].pc # "raised" =>
               Returned(i) \o parser[i].record_buffer = parser[i].produced
        /\ \A k \in DOMAIN parser[i].out :
               LET c == parser[i].out[k]
                   left == Len(parser[i].produced) - ReturnedBefore(i, k)
               IN /\ Len(c.recs) <= c.n
                  /\ Len(c.recs) < c.n => parser[i].file_complete
                  /\ c.eof => Len(c.recs) = (IF left < c.n THEN left ELSE c.n)

\* Two records produced by the first read: get_records(1) returns the first
\* and buffers the second, get_records(2) returns the second at the end of the
\* stream, and a third call returns the empty list.
C9_Witness ==
    /\ Len(parser[1].produced) = 2
    /\ Len(parser[1].out) = 3
    /\ parser[1].out[1].n = 1 /\ Len(parser[1].out[1].recs) = 1
    /\ parser[1].out[2].n = 2 /\ Len(parser[1].out[2].recs) = 1
    /\ parser[1].out[3].eof /\ parser[1].out[3].recs = << >>

\* ------------------------------------------------------------------ C10
\* Input made of well-formed records only.
WellFormed ==
    \/ kind = "wvs" /\ \A j \in DOMAIN segs : segs[j] \in {"plain", "padded", "vspec"}
    \/ kind = "pco" /\ \A j \in DOMAIN segs : segs[j] \in {"W", "A", "meta"}

\* C10: two fresh parsers that have parsed the same well-formed file to the
\* end have produced the same particles (stream, timestamp, names and values)
\* and made the same reports, however their callers batched the get_records
\* calls.
C10_IdempotentReparse ==
    (/\ WellFormed
     /\ fname[1] = fname[2]
     /\ Exhausted(1)
     /\ Exhausted(2)) =>
        /\ parser[1].produced = parser[2].produced
        /\ parser[1].events = parser[2].events

\* Both parsers have parsed a WVS file of two records, under a name that
\* gives a file time, to the end.
C10_Witness ==
    /\ kind = "wvs"
    /\ segs = << "vspec", "padded" >>
    /\ fname[1].match /\ fname[2].match
    /\ Exhausted(1) /\ Exhausted(2)
    /\ Len(parser[2].produced) = 2
    /\ HasValue(parser[2].produced[1], "file_time", << 21 >>)

\* ------------------------------------------------------------------ C11
\* C11: once the parser has reported at least one error to the exception
\* callback, the driver has marked the particle data handler as a capture
\* failure; the records already returned are still the ones produced.
C11_CaptureFailureMarked ==
    \A i \in Insts :
        Reports(i) # << >> =>
            /\ parser[i].capture_failure
            /\ \A k \in DOMAIN Returned(i) : Returned(i)[k] = parser[i].produced[k]

\* ------------------------------------------------------------------ C12
\* The WVS segments that are whole records, and the one that is a record with
\* bytes removed.
WvsIntact == {"plain", "padded", "vspec"}
WvsCorrupt == {"truncated"}

\* C12: for a WVS file made of whole records and records with bytes removed,
\* parsed to the end, the particles are exactly those of the whole records:
\* one for each, in order, each built from the bytes of that record alone,
\* and none built from a record with bytes removed.
C12_CorruptRecordsSkipped ==
    \A i \in Insts :
        (/\ kind = "wvs"
         /\ \A j \in DOMAIN segs : segs[j] \in WvsIntact \cup WvsCorrupt
         /\ Exhausted(i)) =>
            /\ Len(parser[i].produced) =
                   Cardinality({ j \in DOMAIN segs : segs[j] \in WvsIntact })
            /\ \A k \in DOMAIN parser[i].produced :
                   \E j \in DOMAIN segs :
                       /\ segs[j] \in WvsIntact
                       /\ parser[i].produced[k].s = SegStart(kind, segs, j)
                       /\ parser[i].produced[k].e = SegStart(kind, segs, j + 1)

\* ------------------------------------------------------------------ C13
\* Particle p has no value for field f other than null.
NullOrAbsent(p, f) ==
    \A n \in DOMAIN p.values : p.values[n].id = f => p.values[n].kind = "null"

\* Every record of a WVS file of whole records, read under a name the file
\* name pattern does not match, has given a particle without file_time and
\* sequence_number.
MissingFileTimeParticles(i) ==
    /\ Len(parser[i].produced) = Len(segs)
    /\ \A k \in DOMAIN parser[i].produced :
           /\ NullOrAbsent(parser[i].produced[k], "file_time")
           /\ NullOrAbsent(parser[i].produced[k], "sequence_number")

\* C13: when the WVS file name does not match the pattern, every record still
\* gives a particle, with file_time and sequence_number null, and an
\* exception is passed to the exception callback.
C13_MissingFileTimeReported ==
    \A i \in Insts :
        (/\ kind = "wvs"
         /\ ~fname[i].match
         /\ segs # << >>
         /\ \A j \in DOMAIN segs : segs[j] \in WvsIntact
         /\ Exhausted(i)) =>
            /\ MissingFileTimeParticles(i)
            /\ Reports(i) # << >>

\* ------------------------------------------------------------------ C14
\* The fields of the three spectrum data types.
RuleKeys(rules) == { rules[n].key : n \in DOMAIN rules }
SpectrumFields ==
    RuleKeys(VELOCITY_SPECTRUM_ENCODING_RULES)
        \cup RuleKeys(SURFACE_TRACK_SPECTRUM_ENCODING_RULES)
        \cup RuleKeys(PRESSURE_SPECTRUM_ENCODING_RULES)

\* Particle p has an entry, null or not, for field f.
HasField(p, f) == \E n \in DOMAIN p.values : p.values[n].id = f

\* No error is reported for a WVS file of whole records, whatever data types
\* their offset tables leave out.
AbsentTypesNotReported(i) ==
    (/\ kind = "wvs"
     /\ \A j \in DOMAIN segs : segs[j] \in WvsIntact
     /\ Exhausted(i)) => Reports(i) = << >>

\* C14: the particle of a WVS record whose offset table leaves data types
\* out still has every spectrum field, those of the absent data types being
\* null, and no error is reported.
C14_AbsentTypesNull ==
    \A i \in Insts :
        (/\ kind = "wvs"
         /\ \A j \in DOMAIN segs : segs[j] \in WvsIntact
         /\ Exhausted(i)) =>
            /\ \A k \in DOMAIN parser[i].produced :
                   \A f \in SpectrumFields : HasField(parser[i].produced[k], f)
            /\ Reports(i) = << >>

\* ------------------------------------------------------------------ C15
\* The recovered flavour of a pco particle class, and the stream expected for
\* a sample of type t ("W" or "A") from a parser of that flavour.
IsRecoveredClass(c) == c \in {PcoAirRecovered, PcoWaterRecovered}
ExpectedStream(t, recovered) ==
    CASE t = "W" /\ ~recovered -> "pco2a_a_dcl_instrument_water"
      [] t = "W" /\ recovered -> "pco2a_a_dcl_instrument_water_recovered"
      [] t = "A" /\ ~recovered -> "pco2a_a_dcl_instrument_air"
      [] t = "A" /\ recovered -> "pco2a_a_dcl_instrument_air_recovered"

\* The sample type of a pco sensor line.
SampleType(seg) == IF seg = "A" THEN "A" ELSE "W"

\* C15: every well-formed pco sensor record handed to the decoder has given
\* exactly one particle, of the water stream for a 'W' sample and of the air
\* stream for an 'A' sample, in the telemetered or recovered flavour the
\* parser was constructed with; the flavour of the parser's particle class
\* never changes.
C15_TwoParticleTypes ==
    \A i \in Insts :
        kind = "pco" =>
            /\ IsRecoveredClass(parser[i].particle_class)
                   = IsRecoveredClass(parser[i].init_class)
            /\ \A j \in DOMAIN segs :
                   (segs[j] \in {"W", "A", "Wbad"} /\ RecordDecoded(i, j)) =>
                       /\ Cardinality({ k \in DOMAIN parser[i].produced :
                               parser[i].produced[k].s = SegStart(kind, segs, j) }) = 1
                       /\ \A k \in DOMAIN parser[i].produced :
                              parser[i].produced[k].s = SegStart(kind, segs, j) =>
                                  parser[i].produced[k].stream =
                                      ExpectedStream(SampleType(segs[j]),
                                          IsRecoveredClass(parser[i].init_class))

\* A recovered parser constructed with the water class has parsed an air
\* sample and then a water sample: one particle of each stream.
C15_Witness ==
    /\ kind = "pco"
    /\ segs = << "A", "W" >>
    /\ parser[1].init_class = PcoWaterRecovered
    /\ Exhausted(1)
    /\ Len(parser[1].produced) = 2
    /\ parser[1].produced[1].stream = "pco2a_a_dcl_instrument_air_recovered"
    /\ parser[1].produced[2].stream = "pco2a_a_dcl_instrument_water_recovered"

\* ------------------------------------------------------------------ C16
\* The segments that are sensor data records, and those that are metadata
\* records (timestamp, bracketed text, more text, newline).
SensorSegs(k) == IF k = "pco" THEN {"W", "A", "Wbad"} ELSE {"ensemble", "partial", "nohead", "twohead", "norows"}
MetadataSegs(k) == IF k = "pco" THEN {"meta"} ELSE {"meta", "metatext"}

\* The reports made about the line at which segment j starts.
ReportsAbout(i, j) ==
    { k \in EventsOf(i, {"nondata", "unknown", "encoding"}) :
          parser[i].events[k].s = SegStart(kind, segs, j) }

\* C16: in the DCL line parsers every particle comes from a sensor data
\* record, and a metadata record handed to the parser gives no particle and
\* no report to the exception callback.
C16_OnlySensorRecordsGiveParticles ==
    \A i \in Insts :
        kind \in {"pco", "pd8"} =>
            /\ \A k \in DOMAIN parser[i].produced :
                   \E j \in DOMAIN segs :
                       /\ segs[j] \in SensorSegs(kind)
                       /\ parser[i].produced[k].s >= SegStart(kind, segs, j)
                       /\ parser[i].produced[k].e <= SegStart(kind, segs, j + 1)
            /\ \A j \in DOMAIN segs :
                   (segs[j] \in MetadataSegs(kind) /\ RecordDecoded(i, j)) =>
                       ReportsAbout(i, j) = {}

\* ------------------------------------------------------------------ C17
\* The valid lines of a pco file (sensor records and metadata) and the
\* invalid ones (lines that are neither).
PcoValidLines == {"W", "A", "meta"}
PcoInvalidLines == {"junk"}
IsPcoValidLine(seg) == seg \in PcoValidLines

\* What a particle says: stream, timestamp, names and values.
Content(p) == [stream |-> p.stream, ts |-> p.ts, values |-> p.values]
Contents(ps) == [k \in DOMAIN ps |-> Content(ps[k])]

\* The particles a parser constructed with class c gives for the file made
\* of the lines sl, parsed to the end.
PcoParticlesOf(sl, c) ==
    PcoParseChunks(Local(FileOf("pco", sl), 0, << >>, ClassDefault, c, 0)).result

C18_AccumulatorsCleared ==
    \A i \in Insts : \A n \in DOMAIN parser[i].acc_log :
        parser[i].acc_log[n].line = "empty" => parser[i].acc_log[n].after = 0

\* A terminator line was processed while the lists held lines of its
\* ensemble.
C18_Witness ==
    \E n \in DOMAIN parser[1].acc_log :
        /\ parser[1].acc_log[n].line = "empty"
        /\ parser[1].acc_log[n].before > 0
        /\ parser[1].acc_log[n].after = 0

\* ------------------------------------------------------------------ C19
\* The ensembles that lack a required line or hold it twice.
Pd8Defective == {"nohead", "twohead"}

\* The particles built from bytes of segment j, and the reports about them.
ParticlesWithin(i, j) ==
    { k \in DOMAIN parser[i].produced :
          /\ parser[i].produced[k].e > SegStart(kind, segs, j)
          /\ parser[i].produced[k].s < SegStart(kind, segs, j + 1) }
ReportsWithin(i, j) ==
    { k \in EventsOf(i, {"nondata", "unknown", "encoding"}) :
          /\ parser[i].events[k].e > SegStart(kind, segs, j)
          /\ parser[i].events[k].s < SegStart(kind, segs, j + 1) }

\* C19: in a PD8 file of whole ensembles, an ensemble whose heading line is
\* missing or present twice gives no particle and is reported to the
\* exception callback.
C19_DefectiveEnsembleReported ==
    \A i \in Insts :
        (/\ kind = "pd8"
         /\ \A j \in DOMAIN segs : segs[j] \in Pd8Defective \cup {"ensemble"}
         /\ Exhausted(i)) =>
            \A j \in DOMAIN segs :
                segs[j] \in Pd8Defective =>
                    /\ ParticlesWithin(i, j) = {}
                    /\ ReportsWithin(i, j) # {}

\* The part of C19 the code keeps: a defective ensemble gives no particle.
C19_NoRecordFromDefective ==
    \A i \in Insts :
        kind = "pd8" =>
            \A j \in DOMAIN segs :
                segs[j] \in Pd8Defective => ParticlesWithin(i, j) = {}

\* ------------------------------------------------------------------ C20
\* The terminator lines of ensembles with no data row that the loop processed
\* with an empty sensor_data_list.
EmptyTerminators(i) ==
    { n \in DOMAIN parser[i].acc_log :
          /\ parser[i].acc_log[n].line = "empty"
          /\ parser[i].acc_log[n].rows = 0
          /\ \E j \in DOMAIN segs :
                 /\ segs[j] = "norows"
                 /\ parser[i].acc_log[n].s >= SegStart(kind, segs, j)
                 /\ parser[i].acc_log[n].s < SegStart(kind, segs, j + 1) }

\* C20: a terminator line of a PD8 file reached with no data row accumulated
\* is reported to the exception callback, and no particle is built from it.
C20_EmptyEnsembleReported ==
    \A i \in Insts :
        kind = "pd8" =>
            \A n \in EmptyTerminators(i) :
                /\ \E k \in EventsOf(i, {"nondata", "unknown", "encoding"}) :
                       parser[i].events[k].s = parser[i].acc_log[n].s
                /\ \A k \in DOMAIN parser[i].produced :
                       ~(/\ parser[i].produced[k].s <= parser[i].acc_log[n].s
                         /\ parser[i].produced[k].e > parser[i].acc_log[n].s)

\* The part of C20 the code keeps: no particle holds such a terminator line.
C20_NoEmptySeriesRecord ==
    \A i \in Insts :
        kind = "pd8" =>
            \A n \in EmptyTerminators(i) :
                \A k \in DOMAIN parser[i].produced :
                    ~(/\ parser[i].produced[k].s <= parser[i].acc_log[n].s
                      /\ parser[i].produced[k].e > parser[i].acc_log[n].s)

\* ------------------------------------------------------------------ C21
\* The lines the PD8 loop processed that match no pattern of MATCHER_LIST and
\* are no metadata record.
UnknownLines(i) ==
    { n \in DOMAIN parser[i].acc_log :
          parser[i].acc_log[n].line = "none" /\ ~parser[i].acc_log[n].meta }

\* The reports made about the line that starts at byte s.
ReportsAt(i, s) ==
    { k \in EventsOf(i, {"nondata", "unknown", "encoding"}) :
          parser[i].events[k].s = s }

\* C21: a PD8 line that matches no pattern and is no metadata record is
\* reported exactly once, and the accumulator lists are empty after it.
C21_UnknownLineAbandonsEnsemble ==
    \A i \in Insts :
        kind = "pd8" =>
            \A n \in UnknownLines(i) :
                /\ Cardinality(ReportsAt(i, parser[i].acc_log[n].s)) = 1
                /\ parser[i].acc_log[n].after = 0

\* The part of C21 the code keeps: exactly one report for the line.
C21_UnknownLineReportedOnce ==
    \A i \in Insts :
        kind = "pd8" =>
            \A n \in UnknownLines(i) :
                Cardinality(ReportsAt(i, parser[i].acc_log[n].s)) = 1

\* ------------------------------------------------------------------ C22
\* The value of a hex digit, and bit i of a number counted from the least
\* significant bit.
HexValue(c) ==
    CASE c \in Range(DecChars) -> IndexIn(DecChars, c) - 1
      [] c \in Range(UpperChars) -> 9 + IndexIn(UpperChars, c)
      [] c \in Range(LowerChars) -> 9 + IndexIn(LowerChars, c)
Pow2(i) == IF i = 0 THEN 1 ELSE IF i = 1 THEN 2 ELSE IF i = 2 THEN 4 ELSE 8
BitFromRight(v, i) == (v \div Pow2(i)) % 2

\* C22: check_bit returns bit index, counted from the right, of every hex
\* digit for every index 0..3; it returns 0 or 1; an unknown digit or an
\* index above 3 is reported as UnexpectedDataException.
C22_CheckBit ==
    (call.op = "check_bit" /\ call.pc = "done") =>
        /\ call.exc = "none"
        /\ call.ret \in {0, 1}
        /\ (call.hex_value \in HexChars /\ call.index <= 3) =>
               /\ call.ret = BitFromRight(HexValue(call.hex_value), call.index)
               /\ call.reports = << >>
        /\ (call.hex_value \notin HexChars \/ call.index > 3) =>
               call.reports # << >>

\* The part of C22 the code keeps: for a decimal digit the result is 0 or 1
\* and an index above 3 is reported.
C22_DecimalDigits ==
    (call.op = "check_bit" /\ call.pc = "done" /\ IntParses(call.hex_value)) =>
        /\ call.exc = "none"
        /\ call.ret \in {0, 1}
        /\ call.index > 3 => call.reports = << "UnexpectedDataException" >>

\* ------------------------------------------------------------------ C23
\* A variable leader with a start_time the calendar accepts has been decoded.
VariableLeaderDecoded ==
    /\ call.op = "decode"
    /\ call.pc = "done"
    /\ call.in.type = "vleader"
    /\ call.in.st[3] \in 1..12

\* Field f is among the decoded values.
Emitted(f) == \E n \in DOMAIN call.values : call.values[n].id = f

\* C23: the start_time of a variable leader becomes the internal timestamp,
\* in seconds since the epoch, and is not among the particle's values.
C23_StartTimeIsTimestamp ==
    VariableLeaderDecoded =>
        /\ call.exc = "none"
        /\ call.ts = << timegm(call.in.st[1] * 100 + call.in.st[2], call.in.st[3],
                               call.in.st[4], call.in.st[5], call.in.st[6],
                               call.in.st[7]).secs >>
        /\ ~Emitted("start_time")

\* The part of C23 the code keeps: the timestamp is set from start_time.
C23_TimestampSet ==
    VariableLeaderDecoded =>
        /\ call.exc = "none"
        /\ call.ts = << timegm(call.in.st[1] * 100 + call.in.st[2], call.in.st[3],
                               call.in.st[4], call.in.st[5], call.in.st[6],
                               call.in.st[7]).secs >>
        /\ Emitted("stop_time")

\* ------------------------------------------------------------------ C24
\* The array fields of a decoded record, by its data type id.
ArrayFields(raw) ==
    LET id == S16(raw, 16) IN
    CASE id = Velocity_Spectrum -> {"vspec_dat"}
      [] id = Surface_Track_Spectrum -> {"sspec_dat"}
      [] id = Pressure_Spectrum -> {"pspec_dat"}
      [] id = Directional_Spectrum -> {"dspec_dat"}
      [] id = Heading_Pitch_Roll_Time_Series ->
             {"heading_time_series", "pitch_time_series", "roll_time_series"}
      [] OTHER -> {}

\* Value val is an array of the size the counts of the record specify: count
\* numbers, or for the directional spectrum one row of count[2] numbers for
\* each of the count[1] frequencies.
SizedByCounts(val, type, counts) ==
    /\ val.kind = "array"
    /\ Len(val.v) = counts[1]
    /\ type = "directional" =>
           \A r \in DOMAIN val.v : Len(val.v[r]) = counts[2]

\* A record with a length-prefixed array has been decoded.
ArrayRecordDecoded ==
    /\ call.op = "decode"
    /\ call.pc = "done"
    /\ call.in.type \in {"spectrum", "directional", "hpr"}

\* Every array field is emitted once, as an array of the specified size.
ArraysAsCounted ==
    /\ call.exc = "none"
    /\ \A a \in ArrayFields(call.in.raw) :
           /\ Cardinality({ n \in DOMAIN call.values : call.values[n].id = a }) = 1
           /\ \A n \in DOMAIN call.values :
                  call.values[n].id = a =>
                      SizedByCounts(call.values[n], call.in.type, call.in.counts)

\* C24: in _parse_other_stuff, _parse_hpr_time_series and
\* _parse_directional_spectrum the array that follows its count fields is
\* emitted as an array with as many elements as the counts say, for every
\* count including 0.
C24_ArraysSizedByCounts == ArrayRecordDecoded => ArraysAsCounted

\* The part of C24 the code keeps: the same when the first count is not 0.
C24_NonZeroCounts ==
    (ArrayRecordDecoded /\ call.in.counts[1] > 0) => ArraysAsCounted

\* ------------------------------------------------------------------ C25
\* parse_file has handed its raw record to the decoder.
FcoeffDone == call.op = "parse_file" /\ call.pc = "done"

\* C25: every source index of FCOEFF_DATA_MAP is a position of the
\* parsed_data list parse_file builds, and decoding does not index past its
\* end.
C25_MapIndicesValid ==
    FcoeffDone =>
        /\ \A k \in DOMAIN FCOEFF_DATA_MAP :
               FCOEFF_DATA_MAP[k][2] < Len(call.parsed_data)
        /\ call.exc # "IndexError"

\* The same for the pco parser, whose map the code keeps within the groups
\* of the sensor data pattern.
C25_PcoIndicesValid ==
    \A sym \in PcoSensorLines : \A water \in BOOLEAN :
        \A k \in DOMAIN INSTRUMENT_PARTICLE_MAP(water) :
            INSTRUMENT_PARTICLE_MAP(water)[k][2]
                < Len(SENSOR_DATA_MATCHER_groups(<< sym, "nl" >>))

\* ------------------------------------------------------------------ C26
\* The last 'Fields and Frequencies' line before line j of the file (0 when
\* there is none), and the numbers it declares (0 by default).
LastDirFreq(lines, j) ==
    IF \E m \in 1..(j - 1) : lines[m].t = "dirfreq"
    THEN CHOOSE m \in 1..(j - 1) :
             /\ lines[m].t = "dirfreq"
             /\ \A m2 \in (m + 1)..(j - 1) : lines[m2].t # "dirfreq"
    ELSE 0
DeclaredFields(lines, j) ==
    IF LastDirFreq(lines, j) = 0 THEN 0 ELSE lines[LastDirFreq(lines, j)].nf
DeclaredFreq(lines) ==
    IF LastDirFreq(lines, Len(lines) + 1) = 0 THEN 0
    ELSE lines[LastDirFreq(lines, Len(lines) + 1)].nq

\* The data rows of the file with the declared number of values.
GoodRows(lines) ==
    { j \in DOMAIN lines :
          lines[j].t = "row" /\ lines[j].n = DeclaredFields(lines, j) }

\* The reports of kind k made about line j.
FcoeffReports(k, j) ==
    { n \in DOMAIN call.reports :
          call.reports[n].k = k /\ call.reports[n].at = j }

\* Every data row with a wrong number of values is dropped with one report
\* and the others are retained; a row count that differs from the declared
\* number of frequencies gives one report at the end of the file.
RowsAndCountReported ==
    /\ \A j \in DOMAIN call.lines :
           call.lines[j].t = "row" =>
               Cardinality(FcoeffReports("fields", j))
                   = IF j \in GoodRows(call.lines) THEN 0 ELSE 1
    /\ Len(call.dspec_matrix) = Cardinality(GoodRows(call.lines))
    /\ Cardinality(FcoeffReports("freq", Len(call.lines) + 1))
           = IF Cardinality(GoodRows(call.lines)) # DeclaredFreq(call.lines)
             THEN 1 ELSE 0

\* C26: after parse_file, every data row with a wrong number of values has
\* been dropped with exactly one report, a wrong number of retained rows has
\* been reported exactly once, and the record buffer holds exactly one
\* particle.
C26_OneParticlePerFile ==
    FcoeffDone =>
        /\ RowsAndCountReported
        /\ Len(call.record_buffer) = 1

\* The part of C26 the code keeps: the reports.
C26_Reports == FcoeffDone => RowsAndCountReported

\* ------------------------------------------------------------------ C27
\* The lines of a whole ensemble that go into the lists before its
\* terminator line: time header, heading, temperature and two data rows.
EnsembleLinesHeld ==
    Cardinality({ k \in DOMAIN Pd8Segment("ensemble") :
                    Pd8Segment("ensemble")[k] \in {"time", "head", "temp", "data"} })

\* C27: in a PD8 file of whole ensembles, whatever the block reads, every
\* terminator line finds the lines of its ensemble in the accumulator lists.
C27_AccumulatorSurvivesBlocks ==
    \A i \in Insts :
        (/\ kind = "pd8"
         /\ \A j \in DOMAIN segs : segs[j] = "ensemble") =>
            \A n \in DOMAIN parser[i].acc_log :
                parser[i].acc_log[n].line = "empty" =>
                    /\ parser[i].acc_log[n].before = EnsembleLinesHeld
                    /\ parser[i].acc_log[n].rows = 2

\* The part of C27 the code keeps: the particles do not depend on the block
\* reads, because a PD8 file gives none.
C27_NoPd8Particles ==
    \A i \in Insts : kind = "pd8" => parser[i].produced = << >>

\* ------------------------------------------------------------------ C28
\* The file_time and sequence_number of the name parser i reads its file
\* under match those particle p holds, none when the name does not match.
FromOwnFileName(i, p) ==
    IF fname[i].match
    THEN /\ HasValue(p, "file_time", << fname[i].time >>)
         /\ HasValue(p, "sequence_number", << fname[i].seq >>)
    ELSE /\ ~HasField(p, "file_time")
         /\ ~HasField(p, "sequence_number")

\* C28: with two WVS parsers run one after the other, the file_time and
\* sequence_number of every particle come from the name of the file its own
\* parser reads; a parser whose file name does not match emits neither.
C28_FileTimeFromOwnName ==
    \A i \in Insts :
        kind = "wvs" =>
            \A k \in DOMAIN parser[i].produced :
                FromOwnFileName(i, parser[i].produced[k])

\* The part of C28 the code keeps: the first parser's particles.
C28_FirstParser ==
    kind = "wvs" =>
        \A k \in DOMAIN parser[1].produced :
            FromOwnFileName(1, parser[1].produced[k])

\* ------------------------------------------------------------------ C29
\* No header of a further record starts inside span sp of buffer buf.
CoversOneRecord(buf, sp) ==
    \A t \in HeadersIn(buf) : ~(sp[1] < t /\ t < sp[2])

\* The whole record that is segment j has been framed and decoded by
\* parser i.
FramedAndDecoded(i, j) ==
    \E k \in DOMAIN parser[i].produced :
        /\ parser[i].produced[k].s = SegStart(kind, segs, j)
        /\ parser[i].produced[k].e = SegStart(kind, segs, j + 1)

\* C29: no span the WVS sieve returns extends over the header of a following
\* record, and a whole record that follows a record with bytes removed is
\* framed and decoded.
C29_FrameWithinOneRecord ==
    \A i \in Insts :
        kind = "wvs" =>
            /\ \A k \in DOMAIN parser[i].sieved :
                   \A n \in DOMAIN parser[i].sieved[k].spans :
                       CoversOneRecord(parser[i].sieved[k].buf,
                                       parser[i].sieved[k].spans[n])
            /\ Exhausted(i) =>
                   \A j \in DOMAIN segs :
                       (/\ j > 1
                        /\ segs[j] \in WvsIntact
                        /\ \A m \in 1..(j - 1) : segs[m] \in WvsCorrupt)
                           => FramedAndDecoded(i, j)

\* What holds in the code: the spans of a file of whole records each cover
\* one record.
C29_WholeRecords ==
    \A i \in Insts :
        (kind = "wvs" /\ \A j \in DOMAIN segs : segs[j] \in WvsIntact) =>
            \A k \in DOMAIN parser[i].sieved :
                \A n \in DOMAIN parser[i].sieved[k].spans :
                    CoversOneRecord(parser[i].sieved[k].buf,
                                    parser[i].sieved[k].spans[n])

\* ------------------------------------------------------------------ C30
\* The line chunk that event ev of parser i handed to the loop body.
ChunkOf(ev) == SubSeq(file, ev.s + 1, ev.e)

\* The outcomes of the line chunk of event ev: particles built from it, its
\* being a metadata record, and unknown-data reports about it.
ParticlesFrom(i, ev) ==
    Cardinality({ n \in DOMAIN parser[i].produced : parser[i].produced[n].s = ev.s })
IgnoredAsMetadata(ev) ==
    IF SENSOR_DATA_MATCHER_groups(ChunkOf(ev)) = << >>
       /\ METADATA_MATCHER_match(ChunkOf(ev))
    THEN 1 ELSE 0
UnknownReports(i, ev) ==
    Cardinality({ n \in EventsOf(i, {"unknown"}) : parser[i].events[n].s = ev.s })
Outcomes(i, ev) ==
    ParticlesFrom(i, ev) + IgnoredAsMetadata(ev) + UnknownReports(i, ev)

\* C30: every line chunk the pco loop has processed has exactly one outcome:
\* one particle, or a metadata record ignored, or one unknown-data report.
C30_OneOutcomePerLine ==
    \A i \in Insts :
        (kind = "pco" /\ parser[i].pc = "idle") =>
            \A k \in EventsOf(i, {"data"}) :
                Outcomes(i, parser[i].events[k]) = 1

\* The part of C30 the code keeps: the same for every line whose sample type
\* is 'A' or 'W' or that is no sensor record.
C30_KnownSampleTypes ==
    \A i \in Insts :
        (kind = "pco" /\ parser[i].pc = "idle") =>
            \A k \in EventsOf(i, {"data"}) :
                "Q" \notin { ChunkOf(parser[i].events[k])[n] :
                                n \in DOMAIN ChunkOf(parser[i].events[k]) }
                    => Outcomes(i, parser[i].events[k]) = 1

====
